---------------------------- MODULE Spec2Model ----------------------------
(***************************************************************************)
(* Client-side content synchronisation layer of the dxp-dubai site:        *)
(*   - DataLoader   (data-loader.js):   fetch / cache / fallback           *)
(*   - the navigation watcher (site-config.js, setupRouteChangeListener)   *)
(*   - PageRenderer (site-config.js):   the render functions               *)
(* Each part has its own specification (SpecFetch, SpecWatch, SpecRender,  *)
(* SpecInitial); the variables of the other parts stay at their initial   *)
(* value in it.                                                            *)
(***************************************************************************)
EXTENDS Integers, Sequences, FiniteSets, TLC

(***************************************************************************)
(* Bounds of the model.                                                    *)
(***************************************************************************)
\* number of fetcher calls made in one run of SpecFetch
MaxCalls == 2
\* number of navigation clicks that set an intent in one run of SpecWatch
MaxClicks == 2
\* number of projects in a payload
MaxProjects == 3
\* number of render calls made in one run of SpecRender
MaxRenders == 2
\* largest data-initial-count of the served homepage grid
MaxInitial == 2
\* index loads made in a row on one served homepage
MaxSliderCalls == 3
\* focus and visibilitychange events of one page load
MaxEvents == 2
\* runs of initializeHoverEffects in one session
MaxHoverRuns == 4

(***************************************************************************)
(* DataLoader: configuration                                               *)
(***************************************************************************)
\* the keys of API_CONFIG.LOCAL_PATHS, one fetcher each
Endpoints == {"projects", "about", "contact", "header"}

\* `${API_CONFIG.CMS_BASE_URL}/${endpoint}`
CmsUrl(endpoint) == <<"cms", endpoint>>

\* API_CONFIG.LOCAL_PATHS[endpoint]
LocalPath(endpoint) == <<"local", endpoint>>

\* const cacheKey = endpoint || localPath;   (every fetcher passes an endpoint)
CacheKey(endpoint) == endpoint

NoData == [kind |-> "none"]
NoError == [kind |-> "noerror"]

\* What a network request can come back with: fetch() rejects ("neterr"), or
\* a response arrives with response.ok true/false and a body that
\* response.json() can or cannot parse.  A parsed body is a JSON object (the
\* wire format of every resource); hasList tells whether it has a `projects`
\* member, the case `data.projects || []` is written for.
Outcomes ==
    {[net |-> "neterr", ok |-> FALSE, json |-> FALSE, hasList |-> FALSE]}
    \cup [net : {"response"}, ok : BOOLEAN, json : {FALSE}, hasList : {FALSE}]
    \cup [net : {"response"}, ok : BOOLEAN, json : {TRUE}, hasList : BOOLEAN]

VARIABLES
    useCmsApi,   \* API_CONFIG.USE_CMS_API
    cache,       \* const cache = {}      key -> payload object or NoData
    calls,       \* the fetcher calls made so far, in call order
    firstRet,    \* per fetcher: what the first successful call since the last clearCache returned
    racy         \* per fetcher: two of the calls that can write its cache entry were in flight together

fetchVars == <<useCmsApi, cache, calls, firstRet, racy>>

VARIABLES
    phase,                 \* "loading" until setupRouteChangeListener has run, then "ready"
    path,                  \* window.location.pathname when the script runs
    page,                  \* the page whose markup the document currently holds
    bodyClass,             \* the template-* classes of document.body
    targetSlug,            \* let targetSlug = null
    contentChangeDetected, \* let contentChangeDetected = false
    debounceTimer,         \* let debounceTimer = null: the pending content check
    resetTimers,           \* pending `setTimeout(() => { targetSlug = null; ... }, 500)`, oldest first
    initialTimer,          \* pending `setTimeout(() => { ...load initial page... }, 100)`
    initialPageLoaded,     \* window.__initialPageLoaded
    intent,                \* the latest intent captured by a click: its number and slug
    lastLoad,              \* the latest loader invocation
    loadsForIntent,        \* loader invocations made under the latest intent
    burst,                 \* mutation batches that armed a check since the last click
    quiet,                 \* ticks since the last mutation batch that armed a check (up to DebounceDelay)
    checkSteps             \* the statements the latest content check executed after its test, in order

watchVars == <<phase, path, page, bodyClass, targetSlug, contentChangeDetected,
               debounceTimer, resetTimers, initialTimer, initialPageLoaded,
               intent, lastLoad, loadsForIntent, burst, quiet, checkSteps>>

VARIABLES
    dom,        \* the document: its mount points, the renderer's pending timers, dispatched events
    renders,    \* render calls made so far
    lastStep,   \* what the latest step of the renderer did
    indexLoad   \* length of the payload of the latest loadIndexProjects render of this page, or -1

renderVars == <<dom, renders, lastStep, indexLoad>>

VARIABLES
    loads       \* the load-and-render sequences started so far; loads[k] made the fetcher call calls[k]

loadVars == <<loads>>

VARIABLES
    post        \* the deferred second phase of the renders: its pending timers and what has run

postVars == <<post>>

VARIABLES
    stale,      \* the requests that were in flight when clearCache ran
    app,        \* app-init: its pending initializeCurrentPage timers and the loaders it invoked
    link,       \* a navigation link that disableLink and enableLink are applied to
    hover       \* the project boxes of the document with the hover handlers on their links

clearVars == <<stale>>
appVars == <<app>>
linkVars == <<link>>
hoverVars == <<hover>>
restVars == <<clearVars, appVars, linkVars, hoverVars>>

vars == <<fetchVars, watchVars, renderVars, loadVars, postVars, restVars>>

(***************************************************************************)
(* DataLoader: values                                                      *)
(***************************************************************************)
\* The object response.json() resolves with: a new object each time.  Its
\* identity is the request that produced it: call i, source `from`.  hasList
\* is kept for the projects resource only (no other fetcher reads it).
\* statusOk is response.ok of the response it was parsed from.
Ref(i, what) == <<i, what>>
Payload(i, endpoint, from, hasList, statusOk) ==
    [kind |-> "payload", ref |-> Ref(i, from), from |-> from,
     hasList |-> IF endpoint = "projects" THEN hasList ELSE TRUE,
     statusOk |-> statusOk]

\* An error object as the code throws it: the TypeError of a rejected
\* fetch(), new Error(`HTTP error! status: ...`), the SyntaxError of
\* response.json().  None of them has the endpoint in it: resource is "none".
ErrorOf(outcome, from) ==
    [kind |-> IF outcome.net = "neterr" THEN "TypeError"
              ELSE IF from = "primary" /\ ~outcome.ok THEN "HttpError"
              ELSE "SyntaxError",
     from |-> from,
     resource |-> "none"]

\* the url the try block requests
FirstUrlMutantAlwaysCms(endpoint) == CmsUrl(endpoint)
FirstUrl(endpoint) == IF useCmsApi THEN CmsUrl(endpoint) ELSE LocalPath(endpoint)

\* Does the try block (lines 38-46) reach `return data`?
PrimarySucceeds(outcome) == outcome.net = "response" /\ outcome.ok /\ outcome.json

\* Does the fallback block (lines 53-56) reach `return data`?  There is no
\* response.ok test in it.
FallbackSucceeds(outcome) == outcome.net = "response" /\ outcome.json

\* if (API_CONFIG.USE_CMS_API && localPath)
HasFallbackMutantAlways(endpoint) == TRUE
HasFallback(endpoint) == useCmsApi

\* The value the fetcher hands to its caller, given what fetchData returned.
\*   fetchProjects: data.projects || []   - the array inside the payload, or
\*                  a new empty array when the payload has none
\*   fetchAbout, fetchContact, fetchHeader: the payload object itself
FetcherReturn(endpoint, data, fresh) ==
    IF endpoint = "projects"
    THEN IF data.hasList
         THEN [kind |-> "list", ref |-> data.ref]
         ELSE [kind |-> "emptylist", ref |-> fresh]
    ELSE [kind |-> "object", ref |-> data.ref]

InFlight(c) == c.pc \in {"primary", "fallback"}

\* a call record
Call(endpoint, pc, reqs, data, ret, err, seenFirst, sequential) ==
    [endpoint |-> endpoint, pc |-> pc, reqs |-> reqs, data |-> data, ret |-> ret,
     err |-> err, seenFirst |-> seenFirst, sequential |-> sequential]

(***************************************************************************)
(* DataLoader: operations                                                  *)
(***************************************************************************)
\* the state of a run in which no fetcher is called
FetchIdle ==
    /\ useCmsApi = TRUE
    /\ cache = [k \in Endpoints |-> NoData]
    /\ calls = <<>>
    /\ firstRet = [k \in Endpoints |-> NoData]
    /\ racy = [k \in Endpoints |-> FALSE]

FetchInit ==
    /\ useCmsApi \in BOOLEAN
    /\ cache = [k \in Endpoints |-> NoData]
    /\ calls = <<>>
    /\ firstRet = [k \in Endpoints |-> NoData]
    /\ racy = [k \in Endpoints |-> FALSE]

\* if (cache[cacheKey]) return cache[cacheKey];    (a payload object is truthy)
CacheHitMutantNever(endpoint) == FALSE
CacheHit(endpoint) == cache[CacheKey(endpoint)] # NoData

\* A fetcher is called and the cache has the key: fetchData returns the cached
\* object without a request, and the fetcher returns (lines 26-29, 67-82).
FetchFromCache(endpoint) ==
    /\ Len(calls) < MaxCalls
    /\ CacheHit(endpoint)
    /\ LET data == cache[CacheKey(endpoint)]
           ret == FetcherReturn(endpoint, data, Ref(Len(calls) + 1, "empty"))
       IN /\ calls' = Append(calls,
                 Call(endpoint, "ok", <<>>, data, ret, NoError,
                      firstRet[endpoint], ~racy[endpoint]))
    /\ UNCHANGED <<useCmsApi, cache, racy, firstRet>>

\* A fetcher is called and the cache misses: fetchData requests the first url
\* and suspends at `await fetch(url)` (lines 31-38).
FetchStart(endpoint) ==
    /\ Len(calls) < MaxCalls
    /\ ~CacheHit(endpoint)
    /\ calls' = Append(calls,
           Call(endpoint, "primary", <<FirstUrl(endpoint)>>, NoData, NoData, NoError,
                firstRet[endpoint], ~racy[endpoint]))
    /\ racy' = IF \E i \in 1..Len(calls) : calls[i].endpoint = endpoint /\ InFlight(calls[i])
               THEN [racy EXCEPT ![endpoint] = TRUE] ELSE racy
    /\ UNCHANGED <<useCmsApi, cache, firstRet>>

\* the call returns `data` to the fetcher, which returns to its caller
Complete(i, data) ==
    LET c == calls[i]
        ret == FetcherReturn(c.endpoint, data, Ref(i, "empty"))
    IN /\ calls' = [calls EXCEPT ![i] = [c EXCEPT !.pc = "ok", !.data = data, !.ret = ret]]
       /\ firstRet' = IF firstRet[c.endpoint] = NoData
                      THEN [firstRet EXCEPT ![c.endpoint] =
                               [kind |-> "first", ret |-> ret, data |-> data]]
                      ELSE firstRet

\* cache[cacheKey] = data;
CacheWriteMutantOtherKey(endpoint, data) ==
    cache' = [cache EXCEPT ![CHOOSE k \in Endpoints : k # endpoint] = data]
CacheWriteMutantFirstWins(endpoint, data) ==
    cache' = IF cache[CacheKey(endpoint)] = NoData
             THEN [cache EXCEPT ![CacheKey(endpoint)] = data]
             ELSE cache
CacheWrite(endpoint, data) ==
    cache' = [cache EXCEPT ![CacheKey(endpoint)] = data]

\* a catch block that stores what it caught before it throws it on
ThrowMutantCachesError(i, err) ==
    /\ calls' = [calls EXCEPT ![i] = [@ EXCEPT !.pc = "failed", !.err = err]]
    /\ cache' = [cache EXCEPT ![CacheKey(calls[i].endpoint)] = err]
    /\ UNCHANGED firstRet
\* `throw fallbackError` (line 59), `throw error` (line 63): the call is
\* over, the fetcher's promise rejects with err
Throw(i, err) ==
    /\ calls' = [calls EXCEPT ![i] = [@ EXCEPT !.pc = "failed", !.err = err]]
    /\ UNCHANGED <<cache, firstRet>>

\* The first request of call i comes back (lines 38-50, 63).
PrimaryResponds(i, outcome) ==
    /\ i \in 1..Len(calls)
    /\ calls[i].pc = "primary"
    /\ LET c == calls[i]
       IN IF PrimarySucceeds(outcome)
          THEN /\ Complete(i, Payload(i, c.endpoint, "primary", outcome.hasList, outcome.ok))
               /\ CacheWrite(c.endpoint, Payload(i, c.endpoint, "primary", outcome.hasList, outcome.ok))
          ELSE IF HasFallback(c.endpoint)
               THEN /\ calls' = [calls EXCEPT ![i] =
                            [c EXCEPT !.pc = "fallback",
                                      !.reqs = Append(c.reqs, LocalPath(c.endpoint)),
                                      !.err = ErrorOf(outcome, "primary")]]
                    /\ UNCHANGED <<cache, firstRet>>
               ELSE Throw(i, ErrorOf(outcome, "primary"))
    /\ UNCHANGED <<useCmsApi, racy>>

\* The fallback request of call i comes back (lines 52-60).
FallbackResponds(i, outcome) ==
    /\ i \in 1..Len(calls)
    /\ calls[i].pc = "fallback"
    /\ LET c == calls[i]
       IN IF FallbackSucceeds(outcome)
          THEN /\ Complete(i, Payload(i, c.endpoint, "fallback", outcome.hasList, outcome.ok))
               /\ CacheWrite(c.endpoint, Payload(i, c.endpoint, "fallback", outcome.hasList, outcome.ok))
          ELSE Throw(i, ErrorOf(outcome, "fallback"))
    /\ UNCHANGED <<useCmsApi, racy>>

\* Object.keys(cache).forEach(key => delete cache[key]);
ClearCacheMutantKeepsOne ==
    /\ cache' = [k \in Endpoints |-> IF k = "header" THEN cache[k] ELSE NoData]
    /\ firstRet' = [k \in Endpoints |-> NoData]
    /\ racy' = racy
    /\ UNCHANGED <<useCmsApi, calls>>
ClearCache ==
    /\ cache' = [k \in Endpoints |-> NoData]
    /\ firstRet' = [k \in Endpoints |-> NoData]
    /\ racy' = [k \in Endpoints |->
                   \E i, j \in 1..Len(calls) :
                       /\ i # j
                       /\ calls[i].endpoint = k /\ InFlight(calls[i])
                       /\ calls[j].endpoint = k /\ InFlight(calls[j])]
    /\ UNCHANGED <<useCmsApi, calls>>

(***************************************************************************)
(* Navigation watcher: setupRouteChangeListener (site-config.js)           *)
(* Time is counted in ticks of 50 ms.                                      *)
(***************************************************************************)
Null == "null"

\* the routes the watcher knows
Routes == {"homepage", "works", "about", "contact"}

\* the values a link's data-slug can have: a route, or a slug no branch matches
Slugs == Routes \cup {"other"}

\* the pages the router can put into the document; "detail" is the project
\* detail page, which has no signature element of any route
Pages == Routes \cup {"detail"}

Paths == {"/", "/index.html", "/works", "/about", "/contact", "/project-detail.html"}

\* the page a path serves
PageOfPath(p) ==
    CASE p \in {"/", "/index.html"} -> "homepage"
      [] p = "/works" -> "works"
      [] p = "/about" -> "about"
      [] p = "/contact" -> "contact"
      [] OTHER -> "detail"

\* what a click can land on
ClickTargets ==
    {[link |-> FALSE, slug |-> Null], [link |-> TRUE, slug |-> Null]}
    \cup [link : {TRUE}, slug : Slugs]

\* setTimeout delays, in ticks
DebounceDelay == 3
ResetDelay == 10
InitialLoadDelay == 2

NoTimer == [rem |-> -1]

\* slug -> template class (updateBodyClass, lines 1054-1063)
TemplateClass(slug) ==
    CASE slug = "homepage" -> "template-homepage"
      [] slug = "works" -> "template-projects"
      [] slug = "about" -> "template-about"
      [] slug = "contact" -> "template-contact"
      [] OTHER -> ""

TemplateClasses == {TemplateClass(r) : r \in Routes}

\* updateBodyClass without a slug: the slug of the current address (lines 1039-1051)
SlugOfPath(p) ==
    IF p \in {"/", "/index.html", "/index", ""} THEN "homepage"
    ELSE IF p = "/works" THEN "works"
    ELSE IF p = "/about" THEN "about"
    ELSE IF p = "/contact" THEN "contact"
    ELSE Null

\* updateBodyClass without its classList.remove
UpdateBodyClassMutantKeepsOld(classes, slug) ==
    LET s == IF slug = Null THEN SlugOfPath(path) ELSE slug
        newClass == TemplateClass(s)
    IN IF newClass # "" THEN classes \cup {newClass} ELSE classes
\* the classes of the body after updateBodyClass(slug)
UpdateBodyClass(classes, slug) ==
    LET s == IF slug = Null THEN SlugOfPath(path) ELSE slug
        newClass == TemplateClass(s)
    IN IF newClass # "" THEN (classes \ TemplateClasses) \cup {newClass}
       ELSE classes \ TemplateClasses

\* the initial slug read from the body class (lines 1215-1224)
InitialSlug(classes) ==
    IF "template-homepage" \in classes THEN "homepage"
    ELSE IF "template-projects" \in classes THEN "works"
    ELSE IF "template-about" \in classes THEN "about"
    ELSE IF "template-contact" \in classes THEN "contact"
    ELSE Null

\* slug -> loader (lines 1165-1189, 1238-1258)
LoaderOf(slug) ==
    CASE slug = "contact" -> "loadContactContent"
      [] slug = "about" -> "loadAboutContent"
      [] slug = "works" -> "loadProjects"
      [] slug = "homepage" -> "loadIndexProjects"
      [] OTHER -> "none"

\* Is a signature element of `slug` in the document (lines 1131-1151)?  Each
\* page carries the signature elements of its own route only.
ContentLoadedMutantAnyPage(slug) == slug \in Routes
ContentLoaded(slug) == slug \in Routes /\ page = slug

\* An intent: its number, its slug, and the slug of the unconfirmed intent it
\* superseded (Null when there was none).
NoIntent == [id |-> 0, slug |-> Null, superseded |-> Null]
NoLoad == [loader |-> "none", intent |-> -1, armedFor |-> -1]

\* a loader invocation: which loader, under which intent (0: the initial
\* load), and the intent under which the check that made it was armed
Load(loader, id, armedFor) == [loader |-> loader, intent |-> id, armedFor |-> armedFor]

\* the state before the script has run: the served page, with or without its
\* template class on the body
WatchInit ==
    /\ phase = "loading"
    /\ path \in Paths
    /\ page = PageOfPath(path)
    /\ bodyClass \in {{}} \cup
           (IF TemplateClass(PageOfPath(path)) # ""
            THEN {{TemplateClass(PageOfPath(path))}} ELSE {})
    /\ targetSlug = Null
    /\ contentChangeDetected = FALSE
    /\ debounceTimer = NoTimer
    /\ resetTimers = <<>>
    /\ initialTimer = NoTimer
    /\ initialPageLoaded = FALSE
    /\ intent = NoIntent
    /\ lastLoad = NoLoad
    /\ loadsForIntent = 0
    /\ burst = "none"
    /\ quiet = DebounceDelay
    /\ checkSteps = <<>>

\* the state of a run in which the watcher is never set up
WatchIdle ==
    /\ phase = "loading"
    /\ path = "/"
    /\ page = "homepage"
    /\ bodyClass = {}
    /\ targetSlug = Null
    /\ contentChangeDetected = FALSE
    /\ debounceTimer = NoTimer
    /\ resetTimers = <<>>
    /\ initialTimer = NoTimer
    /\ initialPageLoaded = FALSE
    /\ intent = NoIntent
    /\ lastLoad = NoLoad
    /\ loadsForIntent = 0
    /\ burst = "none"
    /\ quiet = DebounceDelay
    /\ checkSteps = <<>>

\* the homepage, served with its template class, after setupRouteChangeListener
\* has run and the initial load has been made
WatchReady ==
    /\ phase = "ready"
    /\ path = "/"
    /\ page = "homepage"
    /\ bodyClass = {"template-homepage"}
    /\ targetSlug = Null
    /\ contentChangeDetected = FALSE
    /\ debounceTimer = NoTimer
    /\ resetTimers = <<>>
    /\ initialTimer = NoTimer
    /\ initialPageLoaded = TRUE
    /\ intent = NoIntent
    /\ lastLoad = Load("loadIndexProjects", 0, 0)
    /\ loadsForIntent = 1
    /\ burst = "none"
    /\ quiet = DebounceDelay
    /\ checkSteps = <<>>

\* setupRouteChangeListener runs (lines 1077-1266): the listeners are in
\* place, and the initial page is detected.
SetupRouteChangeListener ==
    /\ phase = "loading"
    /\ phase' = "ready"
    /\ initialPageLoaded' = TRUE
    /\ IF InitialSlug(bodyClass) # Null
       THEN /\ initialTimer' = [rem |-> InitialLoadDelay, slug |-> InitialSlug(bodyClass)]
            /\ UNCHANGED bodyClass
       ELSE /\ bodyClass' = UpdateBodyClass(bodyClass, Null)
            /\ UNCHANGED initialTimer
    /\ UNCHANGED <<path, page, targetSlug, contentChangeDetected, debounceTimer,
                   resetTimers, intent, lastLoad, loadsForIntent, burst, quiet,
                   checkSteps>>

\* the 100 ms timer of the initial load fires (lines 1237-1259)
InitialTimerFires ==
    /\ initialTimer # NoTimer
    /\ initialTimer.rem = 0
    /\ initialTimer' = NoTimer
    /\ lastLoad' = Load(LoaderOf(initialTimer.slug), intent.id, intent.id)
    /\ loadsForIntent' = loadsForIntent + 1
    /\ UNCHANGED <<phase, path, page, bodyClass, targetSlug, contentChangeDetected,
                   debounceTimer, resetTimers, initialPageLoaded, intent, burst, quiet,
                   checkSteps>>

\* the capture-phase click listener (lines 1088-1106)
Click(target) ==
    /\ phase = "ready"
    /\ IF target.link /\ target.slug # Null
       THEN /\ intent.id < MaxClicks
            /\ targetSlug' = target.slug
            /\ contentChangeDetected' = FALSE
            /\ intent' = [id |-> intent.id + 1, slug |-> target.slug,
                           superseded |-> IF contentChangeDetected THEN Null ELSE targetSlug]
            /\ loadsForIntent' = 0
            /\ burst' = "none"
       ELSE UNCHANGED <<targetSlug, contentChangeDetected, intent, loadsForIntent, burst>>
    /\ UNCHANGED <<phase, path, page, bodyClass, debounceTimer, resetTimers,
                   initialTimer, initialPageLoaded, lastLoad, quiet, checkSteps>>

\* Should the observer callback return without arming a check (lines 1114-1121)?
ObserverSkipsMutantIgnoresConfirmed == targetSlug = Null
ObserverSkips == targetSlug = Null \/ contentChangeDetected

\* the MutationObserver callback (lines 1110-1126, 1199)
ObserverCallbackMutantThrottle ==
    IF ObserverSkips
    THEN UNCHANGED <<debounceTimer, burst, quiet>>
    ELSE /\ debounceTimer' = IF debounceTimer # NoTimer
                             THEN debounceTimer
                             ELSE [rem |-> DebounceDelay, armedFor |-> intent.id,
                                   armedSlug |-> targetSlug]
         /\ burst' = IF burst = "none" THEN "one" ELSE "many"
         /\ quiet' = 0
ObserverCallback ==
    IF ObserverSkips
    THEN UNCHANGED <<debounceTimer, burst, quiet>>
    ELSE /\ debounceTimer' = [rem |-> DebounceDelay, armedFor |-> intent.id,
                               armedSlug |-> targetSlug]
         /\ burst' = IF burst = "none" THEN "one" ELSE "many"
         /\ quiet' = 0

\* The router replaces the page's markup; the observer is called with the
\* mutations.
RouterSwap(p) ==
    /\ phase = "ready"
    /\ page' = p
    /\ ObserverCallback
    /\ UNCHANGED <<phase, path, bodyClass, targetSlug, contentChangeDetected,
                   resetTimers, initialTimer, initialPageLoaded, intent, lastLoad,
                   loadsForIntent, checkSteps>>

\* Any other batch of mutations under document.body (a render, an animation).
Mutation ==
    /\ phase = "ready"
    /\ ObserverCallback
    /\ UNCHANGED <<phase, path, page, bodyClass, targetSlug, contentChangeDetected,
                   resetTimers, initialTimer, initialPageLoaded, intent, lastLoad,
                   loadsForIntent, checkSteps>>

\* the slug the content check looks for: targetSlug as it is when the timer
\* fires, not as it was when the timer was armed
CheckedSlugMutantCaptured == debounceTimer.armedSlug
CheckedSlug == targetSlug

\* one statement of the contentLoaded branch, with the template classes the
\* body has when it runs
Statement(op, classes) == [op |-> op, marker |-> classes]

\* The statements of the contentLoaded branch in the order of the code
\* (lines 1153-1198), for a check of `slug` that finds the body with
\* `classes`; hasHeaderConfig: headerConfig is not null.
ConfirmationSteps(slug, classes, hasHeaderConfig) ==
    LET marked == UpdateBodyClass(classes, slug)
    IN <<Statement("updateBodyClass", marked)>>
       \o (IF hasHeaderConfig THEN <<Statement("applyHeaderStyles", marked)>> ELSE <<>>)
       \o <<Statement(LoaderOf(slug), marked),
             Statement("contentChangeDetected", marked),
             Statement("setTimeout", marked)>>

\* the debounced content check (lines 1125-1199)
DebounceTimerFires ==
    /\ debounceTimer # NoTimer
    /\ debounceTimer.rem = 0
    /\ debounceTimer' = NoTimer
    /\ IF ContentLoaded(CheckedSlug)
       THEN /\ bodyClass' = UpdateBodyClass(bodyClass, CheckedSlug)
            /\ lastLoad' = Load(LoaderOf(CheckedSlug), intent.id, debounceTimer.armedFor)
            /\ loadsForIntent' = loadsForIntent + 1
            /\ contentChangeDetected' = TRUE
            /\ resetTimers' = Append(resetTimers, [rem |-> ResetDelay, intent |-> intent.id])
            /\ \E hasHeaderConfig \in BOOLEAN :
                   checkSteps' = ConfirmationSteps(CheckedSlug, bodyClass, hasHeaderConfig)
       ELSE /\ checkSteps' = <<>>
            /\ UNCHANGED <<bodyClass, lastLoad, loadsForIntent, contentChangeDetected,
                           resetTimers>>
    /\ UNCHANGED <<phase, path, page, targetSlug, initialTimer, initialPageLoaded,
                   intent, burst, quiet>>

\* the 500 ms reset timer of a confirmation fires (lines 1194-1197)
ResetTimerBody ==
    /\ targetSlug' = Null
    /\ contentChangeDetected' = FALSE
ResetTimerFires ==
    /\ resetTimers # <<>>
    /\ Head(resetTimers).rem = 0
    /\ resetTimers' = Tail(resetTimers)
    /\ ResetTimerBody
    /\ UNCHANGED <<phase, path, page, bodyClass, debounceTimer, initialTimer,
                   initialPageLoaded, intent, lastLoad, loadsForIntent, burst, quiet,
                   checkSteps>>

Pending(t) == t # NoTimer
Expired(t) == t # NoTimer /\ t.rem = 0
Elapse(t) == IF t = NoTimer THEN t ELSE [t EXCEPT !.rem = t.rem - 1]

\* 50 ms pass: possible when no pending timer is due
Tick ==
    /\ Pending(debounceTimer) \/ Pending(initialTimer) \/ resetTimers # <<>>
    /\ ~Expired(debounceTimer)
    /\ ~Expired(initialTimer)
    /\ \A i \in 1..Len(resetTimers) : resetTimers[i].rem > 0
    /\ debounceTimer' = Elapse(debounceTimer)
    /\ initialTimer' = Elapse(initialTimer)
    /\ resetTimers' = [i \in 1..Len(resetTimers) |-> Elapse(resetTimers[i])]
    /\ quiet' = IF quiet < DebounceDelay THEN quiet + 1 ELSE quiet
    /\ UNCHANGED <<phase, path, page, bodyClass, targetSlug, contentChangeDetected,
                   initialPageLoaded, intent, lastLoad, loadsForIntent, burst,
                   checkSteps>>

(***************************************************************************)
(* PageRenderer (site-config.js, lines 1290-1851): the document            *)
(***************************************************************************)
\* `projects.slice(0, 2)`: the slider shows at most this many projects
SliderMax == 2
\* the delay of the staged transition, `setTimeout(..., 300)`; the renderer's
\* clock ticks every 100 ms
StagedDelay == 3
\* the delays of the second phase in the same ticks: `setTimeout(..., 100)`
\* before the media are initialised, `setTimeout(..., 200)` before the event,
\* and hover-init's `setTimeout(initializeHoverEffects, 100)`
SettleDelay == 1
NotifyDelay == 2
RebindDelay == 1

\* document.getElementById / querySelector found nothing
Absent == [kind |-> "absent"]

\* One project entry as it appears in a mount: the project it links to, and
\* whether the entry is still the one of the served markup (for the grid:
\* the element still has the class initial-project).
Item(i, static) == [id |-> i, static |-> static]

\* the first n entries of the served markup
StaticItems(n) == [i \in 1..n |-> Item(i, TRUE)]

\* the `projects` array of a payload with n projects, in payload order
Projects(n) == [i \in 1..n |-> Item(i, FALSE)]
Payloads == {Projects(n) : n \in 0..MaxProjects}

Min(a, b) == IF a < b THEN a ELSE b

\* Array.prototype.slice(a, b)
slice(s, a, b) == SubSeq(s, a + 1, Min(b, Len(s)))

MountNames == {"slider", "grid", "mainVideo", "sliderTotal", "worksList",
               "aboutBox", "playerLink", "staffList", "addressBox", "detail"}

\* the mount points each render function looks up first
MountOf(op) ==
    CASE op = "renderWorksProjects" -> {"worksList"}
      [] op = "renderIndexProjects" -> {"grid"}
      [] op = "renderHomepageSlider" -> {"slider"}
      [] op = "loadIndexProjects" -> {"grid", "slider"}
      [] op = "renderAboutContent" -> {"aboutBox"}
      [] op = "renderContactContent" -> {"staffList", "addressBox"}
      [] op = "renderProjectDetail" -> {"detail"}
      [] OTHER -> {}

\* The markup the server sends for a page: which mounts it has and what they
\* hold before any render.  c is the data-initial-count of the served grid.
Markup(p, c) ==
    [m \in MountNames |->
        CASE p = "homepage" /\ m = "slider" ->
                 [hasFallback |-> TRUE, opacity |-> "", items |-> StaticItems(SliderMax)]
          [] p = "homepage" /\ m = "grid" -> [initialCount |-> c, items |-> StaticItems(c)]
          [] p = "homepage" /\ m = "mainVideo" -> [videos |-> StaticItems(SliderMax)]
          [] p = "homepage" /\ m = "sliderTotal" -> [text |-> SliderMax]
          [] p = "works" /\ m = "worksList" -> [items |-> <<>>]
          [] p = "about" /\ m \in {"aboutBox", "playerLink"} -> [content |-> "static"]
          [] p = "contact" /\ m \in {"staffList", "addressBox"} -> [content |-> "static"]
          [] p = "detail" /\ m = "detail" -> [content |-> "static", credits |-> "static"]
          [] OTHER -> Absent]

\* the document: its mounts, the pending staged transitions (oldest first),
\* and, while a call or callback runs, the post-render events it has set
\* timers for and whether it threw
Document(mounts, c) ==
    [mounts |-> mounts, served |-> c, timers |-> <<>>, scheduled |-> {}, exception |-> FALSE]

\* the pending callback of a staged transition; `detached` when the slider
\* element it captured has been replaced by the router since
Timer(projects) ==
    [rem |-> StagedDelay, waited |-> 0, detached |-> FALSE, projects |-> projects]

setTimeout(d, t) == [d EXCEPT !.timers = Append(@, t)]

\* a render that sets no timer for its second phase
PostRenderMutantSilent(d, event) == d
\* The post-render step every list render schedules: 100 ms later the media
\* are initialised, 200 ms after that the event is dispatched on window.
\* Neither callback writes to a mount; recorded is that the timer was set.
PostRender(d, event) == [d EXCEPT !.scheduled = @ \cup {event}]

\* renderWorksProjects falling back to the homepage grid when the works list
\* is not in the document
renderWorksProjectsMutantSharedList(d, projects) ==
    IF d.mounts.worksList = Absent
    THEN IF d.mounts.grid = Absent
         THEN d
         ELSE [d EXCEPT !.mounts.grid.items = projects]
    ELSE PostRender([d EXCEPT !.mounts.worksList = [items |-> projects]],
                    "projects-rendered")
\* renderWorksProjects (lines 1304-1372)
renderWorksProjects(d, projects) ==
    IF d.mounts.worksList = Absent
    THEN d
    ELSE PostRender([d EXCEPT !.mounts.worksList = [items |-> projects]],
                    "projects-rendered")

\* how many of the first k entries still have the class initial-project
Rank(items, k) == Cardinality({j \in 1..k : items[j].static})

\* renderIndexProjects (lines 1374-1524).  An initial element that is
\* updated gets the project's link, video, poster and category and loses the
\* class initial-project.
renderIndexProjects(d, projects) ==
    IF d.mounts.grid = Absent
    THEN d
    ELSE LET initialCount == d.mounts.grid.initialCount
             old == d.mounts.grid.items
             fresh == slice(projects, 0, initialCount)
             updated == [k \in 1..Len(old) |->
                            IF old[k].static /\ Rank(old, k) <= Len(fresh)
                            THEN fresh[Rank(old, k)]
                            ELSE old[k]]
             items == IF initialCount > 0
                      THEN updated \o slice(projects, initialCount, Len(projects))
                      ELSE projects
         IN PostRender([d EXCEPT !.mounts.grid = [initialCount |-> 0, items |-> items]],
                       "projects-rendered")

\* updateSliderCounter (lines 1564-1569)
updateSliderCounter(d, total) ==
    IF d.mounts.sliderTotal = Absent
    THEN d
    ELSE [d EXCEPT !.mounts.sliderTotal = [text |-> total]]

\* updateMainVideoSection (lines 1571-1639): the video elements of the
\* wrapper are replaced; loading them afterwards leaves the list as it is
updateMainVideoSection(d, projects) ==
    IF Len(projects) = 0 \/ d.mounts.mainVideo = Absent
    THEN d
    ELSE [d EXCEPT !.mounts.mainVideo = [videos |-> projects]]

\* renderSliderContent (lines 1641-1719); `attached`: the container it was
\* handed is still the slider of the document
renderSliderContent(d, attached, projects) ==
    PostRender(IF attached THEN [d EXCEPT !.mounts.slider.items = projects] ELSE d,
               "slider-rendered")

\* the immediate branch of renderHomepageSlider (lines 1558-1560)
RenderSliderNow(d, attached, sliderProjects) ==
    updateSliderCounter(
        updateMainVideoSection(renderSliderContent(d, attached, sliderProjects),
                               sliderProjects),
        Len(sliderProjects))

\* renderHomepageSlider with the staged branch removed
renderHomepageSliderMutantImmediate(d, projects) ==
    IF d.mounts.slider = Absent
    THEN d
    ELSE RenderSliderNow(d, TRUE, slice(projects, 0, SliderMax))

\* renderHomepageSlider taking the staged branch whatever the flag
renderHomepageSliderMutantAlwaysStaged(d, projects) ==
    IF d.mounts.slider = Absent
    THEN d
    ELSE setTimeout([d EXCEPT !.mounts.slider.opacity = "0.7"],
                    Timer(slice(projects, 0, SliderMax)))
\* renderHomepageSlider (lines 1526-1562)
renderHomepageSlider(d, projects) ==
    IF d.mounts.slider = Absent
    THEN d
    ELSE LET sliderProjects == slice(projects, 0, SliderMax)
         IN IF d.mounts.slider.hasFallback
            THEN setTimeout([d EXCEPT !.mounts.slider.opacity = "0.7"],
                            Timer(sliderProjects))
            ELSE RenderSliderNow(d, TRUE, sliderProjects)

\* the callback without its last two statements
stagedCallbackMutantNoRestore(d, t) == RenderSliderNow(d, ~t.detached, t.projects)
\* the callback of the staged transition (lines 1547-1556)
stagedCallback(d, t) ==
    LET shown == RenderSliderNow(d, ~t.detached, t.projects)
    IN IF t.detached
       THEN shown
       ELSE [shown EXCEPT !.mounts.slider.opacity = "1",
                          !.mounts.slider.hasFallback = FALSE]

\* renderAboutContent (lines 1721-1748)
renderAboutContent(d) ==
    LET box == IF d.mounts.aboutBox = Absent
               THEN d
               ELSE [d EXCEPT !.mounts.aboutBox = [content |-> "data"]]
    IN IF box.mounts.playerLink = Absent
       THEN box
       ELSE [box EXCEPT !.mounts.playerLink = [content |-> "data"]]

\* renderContactContent (lines 1750-1803)
renderContactContent(d) ==
    LET staff == IF d.mounts.staffList = Absent
                 THEN d
                 ELSE [d EXCEPT !.mounts.staffList = [content |-> "data"]]
    IN IF staff.mounts.addressBox = Absent
       THEN staff
       ELSE [staff EXCEPT !.mounts.addressBox = [content |-> "data"]]

\* renderProjectDetail (lines 1805-1833): the elements are dereferenced as
\* they are looked up, so a missing one raises a TypeError
renderProjectDetail(d, hasCredits) ==
    IF d.mounts.detail = Absent
    THEN [d EXCEPT !.exception = TRUE]
    ELSE [d EXCEPT !.mounts.detail =
             [content |-> "data", credits |-> IF hasCredits THEN "data" ELSE "hidden"]]

\* the render part of window.loadIndexProjects / loadIndexPage
\* (lines 1023-1024, 1855-1856)
loadIndexProjects(d, projects) ==
    LET grid == renderIndexProjects(d, projects)
    IN IF grid.exception THEN grid ELSE renderHomepageSlider(grid, projects)

(***************************************************************************)
(* PageRenderer: calls, timers, page swaps                                 *)
(***************************************************************************)
\* what a step of the renderer did
Step(op, n, absent, before, after, waited) ==
    [op |-> op, n |-> n, absent |-> absent, threw |-> after.exception,
     changed |-> after.mounts # before.mounts,
     scheduled |-> after.scheduled # {},
     waited |-> waited]

NoStep == [op |-> "none", n |-> 0, absent |-> FALSE, threw |-> FALSE,
           changed |-> FALSE, scheduled |-> FALSE, waited |-> 0]

\* the state of a run in which nothing is rendered
RenderIdle ==
    /\ dom = Document(Markup("homepage", 0), 0)
    /\ renders = 0
    /\ lastStep = NoStep
    /\ indexLoad = -1

\* the served homepage before any render
RenderInit ==
    /\ \E c \in 0..MaxInitial : dom = Document(Markup("homepage", c), c)
    /\ renders = 0
    /\ lastStep = NoStep
    /\ indexLoad = -1

\* the document a call leaves behind, its outcome taken off
Returned(d) == [d EXCEPT !.exception = FALSE, !.scheduled = {}]

MountAbsent(d, op) == \A m \in MountOf(op) : d.mounts[m] = Absent

\* a render function is called and runs to its return or its throw
Called(op, n, after) ==
    /\ renders < MaxRenders
    /\ renders' = renders + 1
    /\ dom' = Returned(after)
    /\ lastStep' = Step(op, n, MountAbsent(dom, op), dom, after, 0)

RenderWorksProjects(projects) ==
    /\ Called("renderWorksProjects", Len(projects), renderWorksProjects(dom, projects))
    /\ UNCHANGED indexLoad

RenderIndexProjects(projects) ==
    /\ Called("renderIndexProjects", Len(projects), renderIndexProjects(dom, projects))
    /\ indexLoad' = -1

RenderHomepageSlider(projects) ==
    /\ Called("renderHomepageSlider", Len(projects), renderHomepageSlider(dom, projects))
    /\ indexLoad' = -1

RenderAboutContent ==
    /\ Called("renderAboutContent", 0, renderAboutContent(dom))
    /\ UNCHANGED indexLoad

RenderContactContent ==
    /\ Called("renderContactContent", 0, renderContactContent(dom))
    /\ UNCHANGED indexLoad

RenderProjectDetail(hasCredits) ==
    /\ Called("renderProjectDetail", 0, renderProjectDetail(dom, hasCredits))
    /\ UNCHANGED indexLoad

\* window.loadIndexProjects has its payload and renders both views from it
LoadIndexProjects(projects) ==
    /\ Called("loadIndexProjects", Len(projects), loadIndexProjects(dom, projects))
    /\ indexLoad' = Len(projects)

\* window.loadIndexProjects renders once more on the same homepage: one of
\* up to MaxSliderCalls loads in a row (the initial load, app-init's, a
\* confirmed navigation's)
LoadIndexProjectsAgain(projects) ==
    /\ renders < MaxSliderCalls
    /\ renders' = renders + 1
    /\ dom' = Returned(loadIndexProjects(dom, projects))
    /\ lastStep' = Step("loadIndexProjects", Len(projects),
                        MountAbsent(dom, "loadIndexProjects"), dom,
                        loadIndexProjects(dom, projects), 0)
    /\ indexLoad' = Len(projects)

\* the 300 ms timer of the oldest pending staged transition runs
\* (lines 1547-1556)
StagedTimerFires ==
    /\ dom.timers # <<>>
    /\ Head(dom.timers).rem = 0
    /\ LET t == Head(dom.timers)
           after == stagedCallback([dom EXCEPT !.timers = Tail(@)], t)
       IN /\ dom' = Returned(after)
          /\ lastStep' = Step("staged", Len(t.projects), t.detached, dom, after, t.waited)
    /\ UNCHANGED <<renders, indexLoad>>

\* 100 ms pass: possible when no staged transition is due
RenderTick ==
    /\ dom.timers # <<>>
    /\ \A i \in 1..Len(dom.timers) : dom.timers[i].rem > 0
    /\ dom' = [dom EXCEPT !.timers =
                  [i \in 1..Len(dom.timers) |->
                      [dom.timers[i] EXCEPT !.rem = @ - 1, !.waited = @ + 1]]]
    /\ lastStep' = [NoStep EXCEPT !.op = "tick"]
    /\ UNCHANGED <<renders, indexLoad>>

\* The router replaces the page's markup by the served markup of page p; the
\* elements the pending callbacks captured are no longer in the document.
SwapMarkup(p) ==
    /\ dom' = [dom EXCEPT !.mounts = Markup(p, dom.served),
                          !.timers = [i \in 1..Len(dom.timers) |->
                                         [dom.timers[i] EXCEPT !.detached = TRUE]],
                          !.exception = FALSE]
    /\ lastStep' = [NoStep EXCEPT !.op = "swap"]
    /\ indexLoad' = -1
    /\ UNCHANGED renders

(***************************************************************************)
(* The deferred second phase of a render (site-config.js, lines 1352-1371, *)
(* 1505-1523, 1681-1718) and hover-init's listener (hover-init.js, 82-86)  *)
(***************************************************************************)
\* a pending timer of the second phase; `age`: ticks since the replacement
PostTimer(kind, event, id, rem, age) ==
    [kind |-> kind, event |-> event, id |-> id, rem |-> rem, age |-> age]

\* something the second phase of replacement `id` has done
Entry(what, event, id, age) == [what |-> what, event |-> event, id |-> id, age |-> age]

\* no render has been made
PostIdle == post = [count |-> 0, timers |-> <<>>, log |-> <<>>]

\* the call gets past its mount lookup and assigns the mount's innerHTML
\* (lines 1308-1313, 1378-1381 and 1465/1468, 1531-1534 and 1557-1558)
ReplacesContent(d, op) ==
    CASE op = "renderHomepageSlider" ->
             d.mounts.slider # Absent /\ ~d.mounts.slider.hasFallback
      [] OTHER -> ~(\A m \in MountOf(op) : d.mounts[m] = Absent)

\* the second phase after a call or callback returned: the replacement it
\* made, and the 100 ms timer it set
AfterRender(p, replaced, scheduled, event) ==
    LET id == p.count + 1
    IN [count |-> IF replaced \/ scheduled THEN id ELSE p.count,
        timers |-> IF scheduled
                   THEN Append(p.timers, PostTimer("settle", event, id, SettleDelay, 0))
                   ELSE p.timers,
        log |-> IF replaced
                THEN Append(p.log, Entry("replace", event, id, 0))
                ELSE p.log]

PostRenderWorks(projects) ==
    /\ RenderWorksProjects(projects)
    /\ post' = AfterRender(post, ReplacesContent(dom, "renderWorksProjects"),
                           lastStep'.scheduled, "projects-rendered")

PostRenderIndex(projects) ==
    /\ RenderIndexProjects(projects)
    /\ post' = AfterRender(post, ReplacesContent(dom, "renderIndexProjects"),
                           lastStep'.scheduled, "projects-rendered")

PostRenderSlider(projects) ==
    /\ RenderHomepageSlider(projects)
    /\ post' = AfterRender(post, ReplacesContent(dom, "renderHomepageSlider"),
                           lastStep'.scheduled, "slider-rendered")

\* the staged callback calls renderSliderContent on the element it captured
PostStagedFires ==
    /\ StagedTimerFires
    /\ post' = AfterRender(post, TRUE, lastStep'.scheduled, "slider-rendered")

Without(s, i) == SubSeq(s, 1, i - 1) \o SubSeq(s, i + 1, Len(s))

\* A due timer of the second phase runs.  settle: lazy media are updated and
\* the videos loaded, then the 200 ms timer is set (lines 1353-1370).
\* notify: the event is dispatched on window (1366-1369); hover-init's
\* listener for projects-rendered runs inside the dispatch and sets its
\* 100 ms timer (hover-init.js 83-86).  rebind: initializeHoverEffects.
PostTimerFires(i) ==
    /\ i \in 1..Len(post.timers)
    /\ post.timers[i].rem = 0
    /\ LET t == post.timers[i]
           rest == Without(post.timers, i)
       IN post' =
            CASE t.kind = "settle" ->
                     [post EXCEPT
                        !.timers = Append(rest, PostTimer("notify", t.event, t.id,
                                                          NotifyDelay, t.age)),
                        !.log = Append(@, Entry("lazy", t.event, t.id, t.age))]
              [] t.kind = "notify" ->
                     [post EXCEPT
                        !.timers = IF t.event = "projects-rendered"
                                   THEN Append(rest, PostTimer("rebind", t.event, t.id,
                                                               RebindDelay, t.age))
                                   ELSE rest,
                        !.log = Append(@, Entry("notify", t.event, t.id, t.age))]
              [] OTHER ->
                     [post EXCEPT
                        !.timers = rest,
                        !.log = Append(@, Entry("rebind", t.event, t.id, t.age))]
    /\ UNCHANGED renderVars

\* 100 ms pass: possible when no timer of either kind is due
PostTick ==
    /\ \A i \in 1..Len(post.timers) : post.timers[i].rem > 0
    /\ post' = [post EXCEPT !.timers =
                   [i \in 1..Len(post.timers) |->
                       [post.timers[i] EXCEPT !.rem = @ - 1, !.age = @ + 1]]]
    /\ \/ RenderTick
       \/ /\ dom.timers = <<>>
          /\ post.timers # <<>>
          /\ UNCHANGED renderVars

(***************************************************************************)
(* Load-and-render sequences (site-config.js, lines 989-1028, 1835-1866;   *)
(* app-init.js, lines 37-66)                                               *)
(***************************************************************************)
\* The loaders.  window.loadIndexProjects, AppInit's loadIndexProjects and
\* PageRenderer's loadIndexPage (under initializePage's try) have the same
\* body, and so have the about and the contact loaders of the three modules.
Loaders == {"loadProjects", "loadIndexProjects", "loadAboutContent", "loadContactContent"}

\* the fetcher a loader awaits
FetcherOf(loader) ==
    CASE loader = "loadAboutContent" -> "about"
      [] loader = "loadContactContent" -> "contact"
      [] OTHER -> "projects"

\* the render function(s) a loader calls with what the fetcher returned
RendererOf(loader) ==
    CASE loader = "loadProjects" -> "renderWorksProjects"
      [] loader = "loadIndexProjects" -> "loadIndexProjects"
      [] loader = "loadAboutContent" -> "renderAboutContent"
      [] OTHER -> "renderContactContent"

\* What a request of a loader's fetcher call comes back with: a rejected
\* fetch(), or a response with a parsable body of the resource's shape, with
\* a success status or not (the try block refuses the latter, the fallback
\* block accepts it).
LoadOutcomes == {o \in Outcomes : o.net = "neterr" \/ (o.json /\ o.hasList)}

\* The array fetchProjects returned: `data.projects`, or the new [].  A
\* payload's projects member has MaxProjects projects.
ListOf(ret) == IF ret.kind = "list" THEN Projects(MaxProjects) ELSE <<>>

\* the document after the loader's render call(s) on what the fetcher returned
RenderOf(loader, d, ret) ==
    CASE loader = "loadProjects" -> renderWorksProjects(d, ListOf(ret))
      [] loader = "loadIndexProjects" -> loadIndexProjects(d, ListOf(ret))
      [] loader = "loadAboutContent" -> renderAboutContent(d)
      [] OTHER -> renderContactContent(d)

\* One sequence: the loader, where it is ("awaiting" the fetcher, or
\* "resolved": its promise has resolved), whether it called its render
\* function and with which value, and whether it logged an error.
Sequence(loader, pc, rendered, arg, logged) ==
    [loader |-> loader, pc |-> pc, rendered |-> rendered, arg |-> arg, logged |-> logged]

\* the state of a run in which no loader is called
LoadIdle == loads = <<>>

\* the served page of a route before any loader has run
LoadInit ==
    /\ loads = <<>>
    /\ \E p \in Routes : dom = Document(Markup(p, MaxInitial), MaxInitial)
    /\ renders = 0
    /\ lastStep = NoStep
    /\ indexLoad = -1

\* `await window.fetchX()` lets the loader go on to its render call
ResolvedMutantEarly(c) == c.pc \in {"ok", "fallback"}
ResolvedMutantAlways(c) == c.pc \in {"ok", "failed"}
Resolved(c) == c.pc = "ok"

\* The loader of sequence k goes on after a step of its fetcher call.  While
\* the call is in flight the loader stays suspended at its await.  When the
\* fetcher has returned, the render call runs to its return or its throw;
\* when the fetcher has thrown, or the render call throws, the catch block
\* (of the loader, or of initializePage) logs the error and the loader's
\* promise resolves.  `seqs` is loads with sequence k in it.
LoaderContinues(k, seqs) ==
    LET c == calls'[k]
        loader == seqs[k].loader
        after == RenderOf(loader, dom, c.ret)
    IN IF Resolved(c)
       THEN /\ loads' = [seqs EXCEPT ![k] =
                   Sequence(loader, "resolved", TRUE, c.ret, after.exception)]
            /\ dom' = Returned(after)
            /\ renders' = renders + 1
            /\ lastStep' = Step(RendererOf(loader), Len(ListOf(c.ret)),
                                MountAbsent(dom, RendererOf(loader)), dom, after, 0)
            /\ indexLoad' = IF loader = "loadIndexProjects"
                            THEN Len(ListOf(c.ret)) ELSE indexLoad
       ELSE IF InFlight(c)
       THEN /\ loads' = seqs
            /\ UNCHANGED renderVars
       ELSE /\ loads' = [seqs EXCEPT ![k] =
                   Sequence(loader, "resolved", FALSE, NoData, TRUE)]
            /\ UNCHANGED renderVars

\* A loader is called: it calls its fetcher and awaits it.  With the payload
\* in the cache the fetcher returns without a request and the loader goes on
\* to render before any other task runs.
LoaderCalled(loader) ==
    /\ \/ FetchFromCache(FetcherOf(loader))
       \/ FetchStart(FetcherOf(loader))
    /\ LoaderContinues(Len(loads) + 1,
                       Append(loads, Sequence(loader, "awaiting", FALSE, NoData, FALSE)))

\* the first request of sequence k's fetcher call comes back
LoaderPrimaryResponds(k, outcome) ==
    /\ k \in 1..Len(loads)
    /\ PrimaryResponds(k, outcome)
    /\ LoaderContinues(k, loads)

\* the fallback request of sequence k's fetcher call comes back
LoaderFallbackResponds(k, outcome) ==
    /\ k \in 1..Len(loads)
    /\ FallbackResponds(k, outcome)
    /\ LoaderContinues(k, loads)

(***************************************************************************)
(* clearCache while requests are in flight (data-loader.js, lines 23-65,   *)
(* 84-87)                                                                  *)
(***************************************************************************)
\* no clearCache call has been made
ClearIdle == stale = {}

\* the requests in flight: the first request of a call suspended in the try
\* block, the fallback request of a call suspended in the catch block
RequestsInFlight == {Ref(i, calls[i].pc) : i \in {j \in 1..Len(calls) : InFlight(calls[j])}}

\* clearCache runs; the requests that are in flight have been issued before it
ClearCacheObserved ==
    /\ ClearCache
    /\ stale' = stale \cup RequestsInFlight

\* the resources fetched around a clear, and what their requests come back with
ClearEndpoints == {"projects", "about"}
ClearOutcomes == {o \in Outcomes : o.net = "neterr" \/ (o.json /\ o.hasList)}

(***************************************************************************)
(* app-init.js: initializeCurrentPage and its triggers (lines 13-35,       *)
(* 89-121).  Time is counted in the watcher's ticks of 50 ms.              *)
(***************************************************************************)
\* `setTimeout(initializeCurrentPage, 200)` of the DOMContentLoaded listener
\* and `setTimeout(initializeCurrentPage, 100)` of the other two
ContentLoadedDelay == 4
FocusDelay == 2

\* app-init before any of its listeners has run.  placeholder: the served
\* page still has what the checkAndLoad functions look for (an empty #works,
\* the text Loading in .box--about or .list--staff).
AppIdle == app = [timers |-> <<>>, events |-> 0, invoked |-> 0, placeholder |-> FALSE]

AppInit ==
    \E b \in BOOLEAN : app = [timers |-> <<>>, events |-> 0, invoked |-> 0, placeholder |-> b]

\* the branch of initializeCurrentPage the address selects (lines 96-104):
\* there is none for the works page and the detail page
AppBranch(p) ==
    CASE PageOfPath(p) = "homepage" -> "checkAndLoadIndexProjects"
      [] PageOfPath(p) = "about" -> "checkAndLoadAboutContent"
      [] PageOfPath(p) = "contact" -> "checkAndLoadContactContent"
      [] OTHER -> "none"

\* initializeCurrentPage (lines 89-105) with the checkAndLoad function it
\* calls (13-35): a loader is invoked when the flag is not set, the address
\* has a branch and the page still has its placeholder
InitializeCurrentPage(a) ==
    IF initialPageLoaded
    THEN a
    ELSE IF AppBranch(path) # "none" /\ a.placeholder
    THEN [a EXCEPT !.invoked = @ + 1]
    ELSE a

\* DOMContentLoaded: app-init's listener sets its 200 ms timer (lines
\* 108-111), then site-config's listener runs setupRouteChangeListener
\* (site-config.js 1270-1273); app-init.js is loaded first
DomContentLoaded ==
    /\ SetupRouteChangeListener
    /\ app' = [app EXCEPT !.timers = Append(@, ContentLoadedDelay)]

\* a focus or visibilitychange event (lines 113-121), before or after
\* DOMContentLoaded
FocusOrVisible ==
    /\ app.events < MaxEvents
    /\ app' = [app EXCEPT !.events = @ + 1, !.timers = Append(@, FocusDelay)]
    /\ UNCHANGED watchVars

\* a timer of app-init is due and runs initializeCurrentPage
AppTimerFires(i) ==
    /\ i \in 1..Len(app.timers)
    /\ app.timers[i] = 0
    /\ app' = InitializeCurrentPage(
                  [app EXCEPT !.timers = SubSeq(@, 1, i - 1) \o SubSeq(@, i + 1, Len(@))])
    /\ UNCHANGED watchVars

\* the initial load timer of site-config fires
AppInitialTimerFires == InitialTimerFires /\ UNCHANGED app

\* 50 ms pass: possible when no timer of either script is due
AppTick ==
    /\ \A i \in 1..Len(app.timers) : app.timers[i] > 0
    /\ app' = [app EXCEPT !.timers = [i \in 1..Len(app.timers) |-> app.timers[i] - 1]]
    /\ \/ Tick
       \/ /\ ~Pending(debounceTimer) /\ ~Pending(initialTimer) /\ resetTimers = <<>>
          /\ app.timers # <<>>
          /\ UNCHANGED watchVars

(***************************************************************************)
(* disableLink and enableLink (site-config.js, lines 884-979)              *)
(***************************************************************************)
\* an attribute the element does not have: getAttribute returns null
NoAttr == "none"

\* the values the href of a link can have before it is disabled: none, the
\* empty string, the address of one project or of another
Hrefs == {NoAttr, "", "works/a", "works/b"}

\* A link element: its href, the two classes with handlers bound to them,
\* data-navigo, the class disabled-link and the inline style, whether the
\* preventClick listeners are on it, and the data attributes disableLink
\* keeps its notes in.
Element(href, cursorText, changeVideo, navigo) ==
    [href |-> href, cursorText |-> cursorText, changeVideo |-> changeVideo,
     navigo |-> navigo, disabledLink |-> FALSE, style |-> "", blocked |-> FALSE,
     originalHref |-> NoAttr, hadCursorText |-> FALSE, hadChangeVideo |-> FALSE,
     navigoDisabled |-> FALSE]

\* disableLink (lines 884-939).  addEventListener with a listener that is
\* already on the element for the same type and capture flag adds nothing.
disableLink(el) ==
    [el EXCEPT
       !.originalHref = IF @ = NoAttr
                        THEN (IF el.href = NoAttr THEN "" ELSE el.href)
                        ELSE @,
       !.hadCursorText = @ \/ el.cursorText,
       !.cursorText = FALSE,
       !.hadChangeVideo = @ \/ el.changeVideo,
       !.changeVideo = FALSE,
       !.href = "#",
       !.disabledLink = TRUE,
       !.style = "disabled",
       !.blocked = TRUE,
       !.navigoDisabled = @ \/ el.navigo,
       !.navigo = FALSE]

\* enableLink (lines 942-979): `if (originalHref)` is false for null and for
\* the empty string; data-original-href is not removed
enableLink(el) ==
    [el EXCEPT
       !.href = IF el.originalHref \notin {NoAttr, ""} THEN el.originalHref ELSE @,
       !.cursorText = @ \/ el.hadCursorText,
       !.hadCursorText = FALSE,
       !.changeVideo = @ \/ el.hadChangeVideo,
       !.hadChangeVideo = FALSE,
       !.disabledLink = FALSE,
       !.style = "",
       !.blocked = FALSE,
       !.navigo = @ \/ el.navigoDisabled,
       !.navigoDisabled = FALSE]

\* what the claim compares: href, the two classes, data-navigo, the listeners
Visible(el) ==
    [href |-> el.href, cursorText |-> el.cursorText, changeVideo |-> el.changeVideo,
     navigo |-> el.navigo, blocked |-> el.blocked]

\* no link is followed
LinkIdle ==
    link = [el |-> Element(NoAttr, FALSE, FALSE, FALSE), disabled |-> 0,
            before |-> Visible(Element(NoAttr, FALSE, FALSE, FALSE))]

\* a link of the served page
LinkInit ==
    \E h \in Hrefs, c, v, n \in BOOLEAN :
        link = [el |-> Element(h, c, v, n), disabled |-> 0,
                before |-> Visible(Element(h, c, v, n))]

\* applyConfig disables the link (lines 764, 781, 797, 810, 822, 857); a
\* second call finds it disabled already
DisableLink ==
    /\ link.disabled < 2
    /\ link' = [el |-> disableLink(link.el),
                disabled |-> link.disabled + 1,
                before |-> IF link.disabled = 0 THEN Visible(link.el) ELSE link.before]

\* applyConfig enables the link (lines 767, 786, 800, 812, 827, 866),
\* disabled or not
EnableLink ==
    link' = [el |-> enableLink(link.el), disabled |-> 0, before |-> link.before]

\* another function gives the enabled link a new address (lines 113,
\* 1624, 1629)
SetHref(h) ==
    /\ link.disabled = 0
    /\ h \notin {NoAttr, link.el.href}
    /\ link' = [link EXCEPT !.el.href = h]

(***************************************************************************)
(* hover-init.js: initializeHoverEffects (lines 10-73) and when it runs    *)
(* (75-89).  Time is counted in the renderer's ticks of 100 ms.            *)
(***************************************************************************)
\* A project box (.box--work) as the templates and the served markup have
\* it, with its video.js-video and its .box--work__link; enter and leave
\* count the mouseenter and mouseleave listeners on the link.
Box(id) == [id |-> id, video |-> TRUE, anchor |-> TRUE, enter |-> 0, leave |-> 0]

\* the boxes of a list of n projects as innerHTML leaves them: new elements
Boxes(n) == [i \in 1..n |-> Box(i)]

\* initializeHoverEffects adding its listeners to the link it finds
initializeHoverEffectsMutantNoClone(boxes) ==
    [i \in 1..Len(boxes) |->
        IF ~boxes[i].video \/ ~boxes[i].anchor
        THEN boxes[i]
        ELSE [boxes[i] EXCEPT !.enter = @ + 1, !.leave = @ + 1]]
\* initializeHoverEffects (lines 10-73): for every box with a video and a
\* link, the link is replaced by its clone, which has none of the listeners,
\* and the clone gets one mouseenter and one mouseleave listener
initializeHoverEffects(boxes) ==
    [i \in 1..Len(boxes) |->
        IF ~boxes[i].video \/ ~boxes[i].anchor
        THEN boxes[i]
        ELSE [boxes[i] EXCEPT !.enter = 1, !.leave = 1]]

\* hover-init before the page has any box
HoverIdle ==
    hover = [boxes |-> <<>>, loaded |-> FALSE, runs |-> 0, renders |-> 0, timers |-> <<>>]

\* the served page with its pre-rendered boxes, before hover-init has run
HoverInit ==
    \E n \in 0..MaxInitial :
        hover = [boxes |-> Boxes(n), loaded |-> FALSE, runs |-> 0, renders |-> 0,
                 timers |-> <<>>]

\* a run of initializeHoverEffects
HoverRun(h) == [h EXCEPT !.boxes = initializeHoverEffects(@), !.runs = @ + 1]

\* the run at load (lines 75-80)
HoverLoad ==
    /\ ~hover.loaded
    /\ hover' = [HoverRun(hover) EXCEPT !.loaded = TRUE]

\* renderWorksProjects or renderIndexProjects replaces the list by n new
\* boxes; projects-rendered follows (300 ms later), and hover-init's listener
\* sets its 100 ms timer (lines 83-86)
HoverRendered(n) ==
    /\ hover.loaded
    /\ hover.renders < MaxRenders
    /\ hover' = [hover EXCEPT !.boxes = Boxes(n),
                              !.renders = @ + 1,
                              !.timers = Append(@, SettleDelay + NotifyDelay + RebindDelay)]

\* the timer of the listener is due: initializeHoverEffects
HoverTimerFires ==
    /\ hover.timers # <<>>
    /\ Head(hover.timers) = 0
    /\ hover' = HoverRun([hover EXCEPT !.timers = Tail(@)])

\* window.reinitHoverEffects() (line 89)
HoverReinit ==
    /\ hover.loaded
    /\ hover.runs < MaxHoverRuns
    /\ hover' = HoverRun(hover)

\* 100 ms pass: possible when no timer is due
HoverTick ==
    /\ hover.timers # <<>>
    /\ \A i \in 1..Len(hover.timers) : hover.timers[i] > 0
    /\ hover' = [hover EXCEPT !.timers = [i \in 1..Len(@) |-> @[i] - 1]]

(***************************************************************************)
(* The states of the remaining parts in a run that does not use them       *)
(***************************************************************************)
RestIdle == ClearIdle /\ AppIdle /\ LinkIdle /\ HoverIdle

(***************************************************************************)
(* Specifications                                                          *)
(***************************************************************************)
\* the DataLoader alone; the watcher has not been set up
InitFetch == FetchInit /\ WatchIdle /\ RenderIdle /\ LoadIdle /\ PostIdle /\ RestIdle

NextFetch ==
    \/ \E e \in Endpoints : FetchFromCache(e) /\ UNCHANGED <<watchVars, renderVars, loadVars, postVars, restVars>>
    \/ \E e \in Endpoints : FetchStart(e) /\ UNCHANGED <<watchVars, renderVars, loadVars, postVars, restVars>>
    \/ \E i \in 1..MaxCalls, o \in Outcomes : PrimaryResponds(i, o) /\ UNCHANGED <<watchVars, renderVars, loadVars, postVars, restVars>>
    \/ \E i \in 1..MaxCalls, o \in Outcomes : FallbackResponds(i, o) /\ UNCHANGED <<watchVars, renderVars, loadVars, postVars, restVars>>
    \/ ClearCache /\ UNCHANGED <<watchVars, renderVars, loadVars, postVars, restVars>>

SpecFetch == InitFetch /\ [][NextFetch]_vars

\* the navigation watcher after its set-up; no fetcher is called
InitWatch == WatchReady /\ FetchIdle /\ RenderIdle /\ LoadIdle /\ PostIdle /\ RestIdle

NextWatch ==
    \/ \E target \in ClickTargets : Click(target) /\ UNCHANGED <<fetchVars, renderVars, loadVars, postVars, restVars>>
    \/ \E p \in Pages : RouterSwap(p) /\ UNCHANGED <<fetchVars, renderVars, loadVars, postVars, restVars>>
    \/ Mutation /\ UNCHANGED <<fetchVars, renderVars, loadVars, postVars, restVars>>
    \/ DebounceTimerFires /\ UNCHANGED <<fetchVars, renderVars, loadVars, postVars, restVars>>
    \/ ResetTimerFires /\ UNCHANGED <<fetchVars, renderVars, loadVars, postVars, restVars>>
    \/ Tick /\ UNCHANGED <<fetchVars, renderVars, loadVars, postVars, restVars>>

SpecWatch == InitWatch /\ [][NextWatch]_vars

\* the page load: the script runs on the served page; no link is clicked
InitInitial == WatchInit /\ FetchIdle /\ RenderIdle /\ LoadIdle /\ PostIdle /\ RestIdle

NextInitial ==
    \/ SetupRouteChangeListener /\ UNCHANGED <<fetchVars, renderVars, loadVars, postVars, restVars>>
    \/ InitialTimerFires /\ UNCHANGED <<fetchVars, renderVars, loadVars, postVars, restVars>>
    \/ \E p \in Pages : RouterSwap(p) /\ UNCHANGED <<fetchVars, renderVars, loadVars, postVars, restVars>>
    \/ Mutation /\ UNCHANGED <<fetchVars, renderVars, loadVars, postVars, restVars>>
    \/ Tick /\ UNCHANGED <<fetchVars, renderVars, loadVars, postVars, restVars>>

SpecInitial == InitInitial /\ [][NextInitial]_vars

\* the renderer on the served homepage: render calls with any payload, the
\* renderer's timers, page swaps by the router; no click sets an intent
InitRender == WatchReady /\ FetchIdle /\ RenderInit /\ LoadIdle /\ PostIdle /\ RestIdle

NextRender ==
    \/ \E projects \in Payloads : RenderWorksProjects(projects) /\ UNCHANGED <<fetchVars, watchVars, loadVars, postVars, restVars>>
    \/ \E projects \in Payloads : RenderIndexProjects(projects) /\ UNCHANGED <<fetchVars, watchVars, loadVars, postVars, restVars>>
    \/ \E projects \in Payloads : RenderHomepageSlider(projects) /\ UNCHANGED <<fetchVars, watchVars, loadVars, postVars, restVars>>
    \/ \E projects \in Payloads : LoadIndexProjects(projects) /\ UNCHANGED <<fetchVars, watchVars, loadVars, postVars, restVars>>
    \/ RenderAboutContent /\ UNCHANGED <<fetchVars, watchVars, loadVars, postVars, restVars>>
    \/ RenderContactContent /\ UNCHANGED <<fetchVars, watchVars, loadVars, postVars, restVars>>
    \/ \E hasCredits \in BOOLEAN : RenderProjectDetail(hasCredits) /\ UNCHANGED <<fetchVars, watchVars, loadVars, postVars, restVars>>
    \/ StagedTimerFires /\ UNCHANGED <<fetchVars, watchVars, loadVars, postVars, restVars>>
    \/ RenderTick /\ UNCHANGED <<fetchVars, watchVars, loadVars, postVars, restVars>>
    \/ \E p \in Pages : RouterSwap(p) /\ SwapMarkup(p) /\ UNCHANGED <<fetchVars, loadVars, postVars, restVars>>

SpecRender == InitRender /\ [][NextRender]_vars

\* repeated index loads on one served homepage: no page swap, so every call
\* of renderHomepageSlider is made on the same slider element
InitSlider == WatchReady /\ FetchIdle /\ RenderInit /\ LoadIdle /\ PostIdle /\ RestIdle

NextSlider ==
    \/ \E projects \in Payloads :
           LoadIndexProjectsAgain(projects) /\ UNCHANGED <<fetchVars, watchVars, loadVars, postVars, restVars>>
    \/ StagedTimerFires /\ UNCHANGED <<fetchVars, watchVars, loadVars, postVars, restVars>>
    \/ RenderTick /\ UNCHANGED <<fetchVars, watchVars, loadVars, postVars, restVars>>

SpecSlider == InitSlider /\ [][NextSlider]_vars

\* The same with the browser's timers running: a timer that is due fires,
\* and time passes while timers are pending.
SpecSliderLive ==
    /\ SpecSlider
    /\ WF_vars(StagedTimerFires /\ UNCHANGED <<fetchVars, watchVars, loadVars, postVars, restVars>>)
    /\ WF_vars(RenderTick /\ UNCHANGED <<fetchVars, watchVars, loadVars, postVars, restVars>>)

\* the loaders on one served page: any loader is called at any time (by the
\* watcher, by app-init's route check, by a page script), the requests come
\* back, the renderer's timers run; clearCache is not called
\* The list renders of the homepage and the works page with their second
\* phase, and the router swapping between the two pages.  The second phase
\* does not read the payload: an empty and a full list are rendered.
PostPayloads == {Projects(0), Projects(MaxProjects)}

InitPost == WatchReady /\ FetchIdle /\ RenderIdle /\ LoadIdle /\ PostIdle /\ RestIdle

NextPost ==
    \/ \E projects \in PostPayloads : PostRenderWorks(projects) /\ UNCHANGED <<fetchVars, watchVars, loadVars, restVars>>
    \/ \E projects \in PostPayloads : PostRenderIndex(projects) /\ UNCHANGED <<fetchVars, watchVars, loadVars, restVars>>
    \/ \E projects \in PostPayloads : PostRenderSlider(projects) /\ UNCHANGED <<fetchVars, watchVars, loadVars, restVars>>
    \/ PostStagedFires /\ UNCHANGED <<fetchVars, watchVars, loadVars, restVars>>
    \/ \E i \in 1..Len(post.timers) : PostTimerFires(i) /\ UNCHANGED <<fetchVars, watchVars, loadVars, restVars>>
    \/ PostTick /\ UNCHANGED <<fetchVars, watchVars, loadVars, restVars>>
    \/ \E p \in {"homepage", "works"} :
          RouterSwap(p) /\ SwapMarkup(p) /\ UNCHANGED <<fetchVars, loadVars, postVars, restVars>>

SpecPost == InitPost /\ [][NextPost]_vars

\* the DataLoader with clearCache calls made while requests are in flight
InitClear == FetchInit /\ WatchIdle /\ RenderIdle /\ LoadIdle /\ PostIdle /\ RestIdle

NextClear ==
    \/ \E e \in ClearEndpoints : FetchFromCache(e) /\ UNCHANGED <<watchVars, renderVars, loadVars, postVars, restVars>>
    \/ \E e \in ClearEndpoints : FetchStart(e) /\ UNCHANGED <<watchVars, renderVars, loadVars, postVars, restVars>>
    \/ \E i \in 1..MaxCalls, o \in ClearOutcomes : PrimaryResponds(i, o) /\ UNCHANGED <<watchVars, renderVars, loadVars, postVars, restVars>>
    \/ \E i \in 1..MaxCalls, o \in ClearOutcomes : FallbackResponds(i, o) /\ UNCHANGED <<watchVars, renderVars, loadVars, postVars, restVars>>
    \/ ClearCacheObserved /\ UNCHANGED <<watchVars, renderVars, loadVars, postVars, appVars, linkVars, hoverVars>>

SpecClear == InitClear /\ [][NextClear]_vars

\* one page load with both scripts: site-config's set-up and initial load,
\* app-init's timers
InitApp == WatchInit /\ FetchIdle /\ RenderIdle /\ LoadIdle /\ PostIdle
               /\ ClearIdle /\ AppInit /\ LinkIdle /\ HoverIdle

NextApp ==
    \/ DomContentLoaded /\ UNCHANGED <<fetchVars, renderVars, loadVars, postVars, clearVars, linkVars, hoverVars>>
    \/ FocusOrVisible /\ UNCHANGED <<fetchVars, renderVars, loadVars, postVars, clearVars, linkVars, hoverVars>>
    \/ \E i \in 1..Len(app.timers) :
          AppTimerFires(i) /\ UNCHANGED <<fetchVars, renderVars, loadVars, postVars, clearVars, linkVars, hoverVars>>
    \/ AppInitialTimerFires /\ UNCHANGED <<fetchVars, renderVars, loadVars, postVars, clearVars, linkVars, hoverVars>>
    \/ AppTick /\ UNCHANGED <<fetchVars, renderVars, loadVars, postVars, clearVars, linkVars, hoverVars>>

SpecApp == InitApp /\ [][NextApp]_vars

\* one link of the served page under applyConfig's calls
InitLink == WatchIdle /\ FetchIdle /\ RenderIdle /\ LoadIdle /\ PostIdle
                /\ ClearIdle /\ AppIdle /\ LinkInit /\ HoverIdle

NextLink ==
    \/ DisableLink /\ UNCHANGED <<fetchVars, watchVars, renderVars, loadVars, postVars, clearVars, appVars, hoverVars>>
    \/ EnableLink /\ UNCHANGED <<fetchVars, watchVars, renderVars, loadVars, postVars, clearVars, appVars, hoverVars>>
    \/ \E h \in Hrefs :
          SetHref(h) /\ UNCHANGED <<fetchVars, watchVars, renderVars, loadVars, postVars, clearVars, appVars, hoverVars>>

SpecLink == InitLink /\ [][NextLink]_vars

\* hover-init over the renders of one session
InitHover == WatchIdle /\ FetchIdle /\ RenderIdle /\ LoadIdle /\ PostIdle
                 /\ ClearIdle /\ AppIdle /\ LinkIdle /\ HoverInit

NextHover ==
    \/ HoverLoad /\ UNCHANGED <<fetchVars, watchVars, renderVars, loadVars, postVars, clearVars, appVars, linkVars>>
    \/ \E n \in 0..MaxProjects :
          HoverRendered(n) /\ UNCHANGED <<fetchVars, watchVars, renderVars, loadVars, postVars, clearVars, appVars, linkVars>>
    \/ HoverTimerFires /\ UNCHANGED <<fetchVars, watchVars, renderVars, loadVars, postVars, clearVars, appVars, linkVars>>
    \/ HoverReinit /\ UNCHANGED <<fetchVars, watchVars, renderVars, loadVars, postVars, clearVars, appVars, linkVars>>
    \/ HoverTick /\ UNCHANGED <<fetchVars, watchVars, renderVars, loadVars, postVars, clearVars, appVars, linkVars>>

SpecHover == InitHover /\ [][NextHover]_vars

InitLoad == FetchInit /\ WatchReady /\ LoadInit /\ PostIdle /\ RestIdle

NextLoad ==
    \/ \E loader \in Loaders : LoaderCalled(loader) /\ UNCHANGED <<watchVars, postVars, restVars>>
    \/ \E k \in 1..MaxCalls, o \in LoadOutcomes :
           LoaderPrimaryResponds(k, o) /\ UNCHANGED <<watchVars, postVars, restVars>>
    \/ \E k \in 1..MaxCalls, o \in LoadOutcomes :
           LoaderFallbackResponds(k, o) /\ UNCHANGED <<watchVars, postVars, restVars>>
    \/ StagedTimerFires /\ UNCHANGED <<fetchVars, watchVars, loadVars, postVars, restVars>>
    \/ RenderTick /\ UNCHANGED <<fetchVars, watchVars, loadVars, postVars, restVars>>

SpecLoad == InitLoad /\ [][NextLoad]_vars

(***************************************************************************)
(* Claims about DataLoader (checked under SpecFetch)                       *)
(***************************************************************************)
CallIds == 1..Len(calls)

\* Call i began after a call for the same fetcher had completed successfully,
\* with no clearCache in between and no two calls for that fetcher ever in
\* flight together (the calls for it were sequential).
LaterSequentialCall(i) ==
    /\ calls[i].pc = "ok"
    /\ calls[i].seenFirst # NoData
    /\ calls[i].sequential

\* A successful call that was served by the primary source made one request.
PrimaryCostsOneRequest ==
    \A i \in CallIds :
        (calls[i].pc = "ok" /\ calls[i].reqs # <<>> /\ calls[i].data.from = "primary")
            => Len(calls[i].reqs) = 1

\* C1 as stated: cache idempotence.  Once a call of a fetcher has completed
\* successfully, every later sequential call of that fetcher (no clearCache
\* in between) makes no network request and returns a value reference-equal
\* to the one the first call returned; a first call served by the primary
\* source made exactly one request.
C1_CacheIdempotence ==
    /\ \A i \in CallIds :
           LaterSequentialCall(i) =>
               /\ calls[i].reqs = <<>>
               /\ calls[i].ret = calls[i].seenFirst.ret
    /\ PrimaryCostsOneRequest

\* C1 amended: the later call makes no network request and is served the
\* very payload object the first call cached; the value the fetcher returns is
\* reference-equal to the first call's, except that fetchProjects returns a new
\* empty array on each call when the cached payload has no `projects` member.
C1_CacheIdempotenceAmended ==
    /\ \A i \in CallIds :
           LaterSequentialCall(i) =>
               /\ calls[i].reqs = <<>>
               /\ calls[i].data = calls[i].seenFirst.data
               /\ IF calls[i].endpoint = "projects" /\ ~calls[i].data.hasList
                  THEN /\ calls[i].ret.kind = "emptylist"
                       /\ calls[i].ret # calls[i].seenFirst.ret
                  ELSE calls[i].ret = calls[i].seenFirst.ret
    /\ PrimaryCostsOneRequest

\* a second, sequential call of a fetcher was served from the cache after a
\* first call that the primary source had answered
C1_Witness ==
    \E i \in CallIds :
        /\ LaterSequentialCall(i)
        /\ calls[i].ret = calls[i].seenFirst.ret
        /\ calls[i].data.from = "primary"
        /\ \E j \in 1..(i - 1) :
               /\ calls[j].endpoint = calls[i].endpoint
               /\ calls[j].ret = calls[i].seenFirst.ret
               /\ Len(calls[j].reqs) = 1

\* C2: fallback correctness.  In primary mode, when the first request of a
\* call fails the call issues exactly one request, to the static local path;
\* no further request follows; and when that request delivers data the call
\* returns that data and it is stored in the cache under the call's key.
C2_FallbackCorrectness ==
    [][\A i \in CallIds :
          /\ (useCmsApi /\ calls[i].pc = "primary" /\ calls'[i].pc # "primary"
                /\ calls'[i].pc # "ok")
                => /\ calls'[i].pc = "fallback"
                   /\ calls'[i].reqs = <<CmsUrl(calls[i].endpoint), LocalPath(calls[i].endpoint)>>
          /\ (calls[i].pc = "fallback")
                => /\ calls'[i].reqs = calls[i].reqs
                   /\ calls'[i].pc = "ok" =>
                         /\ calls'[i].data.ref = Ref(i, "fallback")
                         /\ calls'[i].ret.ref = IF calls'[i].ret.kind = "emptylist"
                                                THEN Ref(i, "empty") ELSE Ref(i, "fallback")
                         /\ cache'[CacheKey(calls[i].endpoint)] = calls'[i].data
      ]_vars

\* a call whose primary request failed returned the fallback's data, and the
\* cache holds it under the call's key
C2_Witness ==
    \E i \in CallIds :
        /\ useCmsApi
        /\ calls[i].pc = "ok"
        /\ Len(calls[i].reqs) = 2
        /\ calls[i].data.from = "fallback"
        /\ cache[CacheKey(calls[i].endpoint)] = calls[i].data

\* the fallback failed in the sense of the error taxonomy: unreachable,
\* non-success status, or a body that does not parse
FallbackFailed(c) ==
    \/ c.pc = "failed"
    \/ c.pc = "ok" /\ ~c.data.statusOk

\* C3 as stated: when the primary and the fallback source both fail, the call
\* fails (it does not resolve with a payload) with an error that carries the
\* resource name and the last error, the fallback's.
C3_DataUnavailable ==
    \A i \in CallIds :
        (useCmsApi /\ Len(calls[i].reqs) = 2 /\ ~InFlight(calls[i]) /\ FallbackFailed(calls[i]))
            => /\ calls[i].pc = "failed"
               /\ calls[i].err.from = "fallback"
               /\ calls[i].err.resource = calls[i].endpoint

\* C13: bounded retry.  A call issues at most two requests: the first to the
\* location the mode selects, the second, if any, to the static local path,
\* which is then a different location; a call that has returned or failed
\* holds the requests it made, so there is no further attempt.
C13_BoundedRetry ==
    \A i \in CallIds :
        LET r == calls[i].reqs
            e == calls[i].endpoint
        IN /\ Len(r) <= 2
           /\ Len(r) >= 1 => r[1] = (IF useCmsApi THEN CmsUrl(e) ELSE LocalPath(e))
           /\ Len(r) = 2 => (r[2] = LocalPath(e) /\ r[1] # r[2])
           /\ calls[i].pc = "fallback" <=> (InFlight(calls[i]) /\ Len(r) = 2)

\* a call failed on both locations and stopped after its two requests
C13_Witness ==
    \E i \in CallIds :
        /\ calls[i].pc = "failed"
        /\ calls[i].reqs = <<CmsUrl(calls[i].endpoint), LocalPath(calls[i].endpoint)>>
        /\ calls[i].err.from = "fallback"

\* the step is clearCache: every entry is gone and no call has moved
ClearStep == (\A k \in Endpoints : cache'[k] = NoData) /\ calls' = calls

\* C14 as stated: once a key is populated its cached value is not changed by
\* any operation other than clearCache, under any interleaving of calls.
C14_CacheStability ==
    [][\A k \in Endpoints :
          (cache[k] # NoData /\ cache'[k] # cache[k]) => ClearStep]_vars

\* C14 amended: a populated entry is changed only by clearCache or by the
\* completion of a call for that key that had missed the cache and was already
\* in flight; it then holds that call's payload.
C14_CacheStabilityAmended ==
    [][\A k \in Endpoints :
          (cache[k] # NoData /\ cache'[k] # cache[k])
            => \/ ClearStep
               \/ \E i \in CallIds :
                     /\ CacheKey(calls[i].endpoint) = k
                     /\ InFlight(calls[i])
                     /\ calls[i].seenFirst = NoData
                     /\ calls'[i].pc = "ok"
                     /\ cache'[k] = calls'[i].data]_vars

\* two calls for one key overlapped: the entry the first completion wrote was
\* replaced by the payload of the second completion
C14_Witness ==
    \E i, j \in CallIds :
        /\ i # j
        /\ calls[i].endpoint = calls[j].endpoint
        /\ calls[i].pc = "ok" /\ calls[j].pc = "ok"
        /\ firstRet[calls[i].endpoint] # NoData
        /\ firstRet[calls[i].endpoint].data = calls[i].data
        /\ cache[CacheKey(calls[j].endpoint)] = calls[j].data
        /\ calls[i].data # calls[j].data

\* the step is a fetcher call being made
CallMade == Len(calls') = Len(calls) + 1

\* C16: clearCache removes every entry, so that the next call of any fetcher
\* makes a network request; and an entry is removed only by clearCache, never
\* by a step of a fetch.
C16_ClearCache ==
    /\ [][(\E k \in Endpoints : cache[k] # NoData /\ cache'[k] = NoData)
            => ClearStep]_vars
    /\ [][(CallMade /\ cache[CacheKey(calls'[Len(calls')].endpoint)] = NoData)
            => /\ calls'[Len(calls')].pc = "primary"
               /\ Len(calls'[Len(calls')].reqs) = 1]_vars

\* an entry that a completed call had populated was removed by clearCache,
\* and a call of that fetcher is making a network request again
C16_Witness ==
    \E i, j \in CallIds :
        /\ i < j
        /\ calls[i].endpoint = calls[j].endpoint
        /\ calls[i].pc = "ok"
        /\ calls[i].reqs # <<>>
        /\ calls[j].pc = "primary"
        /\ cache[CacheKey(calls[i].endpoint)] = NoData
        /\ \E k \in Endpoints : k # calls[i].endpoint /\ cache[k] = NoData

\* C18: fallback-only mode.  With USE_CMS_API false a call that misses the
\* cache makes exactly one request, to the static local path; when that
\* request fails the call fails with that request's error, makes no second
\* request and leaves the cache as it is.
C18_FallbackOnly ==
    /\ [](~useCmsApi =>
            \A i \in CallIds :
                /\ calls[i].reqs \in {<<>>, <<LocalPath(calls[i].endpoint)>>}
                /\ calls[i].reqs = <<>> => (calls[i].pc = "ok" /\ calls[i].seenFirst # NoData)
                /\ calls[i].pc # "fallback"
                /\ calls[i].pc = "failed" => calls[i].err.from = "primary")
    /\ [][\A i \in CallIds :
            (~useCmsApi /\ calls[i].pc = "primary" /\ calls'[i].pc # "ok"
               /\ calls'[i] # calls[i])
              => /\ calls'[i].pc = "failed"
                 /\ calls'[i].reqs = calls[i].reqs
                 /\ cache' = cache]_vars

\* in fallback-only mode a call failed after its one request to the local
\* path, and the cache has no entry for it
C18_Witness ==
    \E i \in CallIds :
        /\ ~useCmsApi
        /\ calls[i].pc = "failed"
        /\ calls[i].reqs = <<LocalPath(calls[i].endpoint)>>
        /\ cache[CacheKey(calls[i].endpoint)] = NoData

\* C19: the documented cache race.  A call made while the key is unpopulated
\* misses the cache and makes its own request, also when another call for the
\* key is in flight; every call that completes writes its payload under the
\* key, so after two overlapping calls the entry is the payload of the one
\* that completed last.
C19_CacheRace ==
    /\ [][(CallMade /\ cache[CacheKey(calls'[Len(calls')].endpoint)] = NoData)
            => /\ calls'[Len(calls')].pc = "primary"
               /\ calls'[Len(calls')].reqs # <<>>]_vars
    /\ [][\A i \in CallIds :
            (InFlight(calls[i]) /\ calls'[i].pc = "ok")
              => cache'[CacheKey(calls[i].endpoint)] = calls'[i].data]_vars

\* two calls for one key were in flight together; the later call completed
\* first, the earlier call completed last and its payload is the entry
C19_Witness ==
    \E i, j \in CallIds :
        /\ i < j
        /\ calls[i].endpoint = calls[j].endpoint
        /\ calls[i].pc = "ok" /\ calls[j].pc = "ok"
        /\ Len(calls[i].reqs) >= 1 /\ Len(calls[j].reqs) >= 1
        /\ racy[calls[i].endpoint]
        /\ firstRet[calls[i].endpoint] # NoData
        /\ firstRet[calls[i].endpoint].data = calls[j].data
        /\ cache[CacheKey(calls[i].endpoint)] = calls[i].data
        /\ calls[i].data # calls[j].data

(***************************************************************************)
(* Claims about the navigation watcher (checked under SpecWatch)           *)
(***************************************************************************)
\* the step is the debounced content check running
CheckRuns == debounceTimer # NoTimer /\ debounceTimer' = NoTimer

\* the step invokes a loader
LoaderInvoked == loadsForIntent' = loadsForIntent + 1

C6_ClearedOnlyByOwnReset ==
    [][(targetSlug # Null /\ targetSlug' = Null)
         => (contentChangeDetected /\ Head(resetTimers).intent = intent.id)]_vars

\* C17 as stated: no confirmation timeout.  While an intent is pending and
\* unconfirmed and its signature elements are not in the document, no step
\* other than a newer click changes targetSlug, invokes a loader or changes
\* the page-type marker: in particular no timer clears the intent.
C17_NoConfirmationTimeout ==
    [][(/\ targetSlug # Null
        /\ ~contentChangeDetected
        /\ ~ContentLoaded(targetSlug)
        /\ intent' = intent)
         => /\ targetSlug' = targetSlug
            /\ lastLoad' = lastLoad
            /\ loadsForIntent' = loadsForIntent
            /\ bodyClass' = bodyClass]_vars

\* the step is a mutation batch reaching the observer
BatchObserved ==
    /\ intent' = intent
    /\ page' # page \/ burst' # burst \/ (quiet' = 0 /\ quiet # 0)

\* C20: debounce coalescing.  The one outstanding content-check timer is the
\* one armed by the latest mutation batch observed under the pending intent:
\* its remaining time is 150 ms less the time since that batch; every such
\* batch replaces the outstanding timer by a new 150 ms one; and the check
\* runs only when 150 ms have passed since the latest batch, leaving no
\* timer outstanding, so a burst ends in one check.
C20_DebounceCoalescing ==
    /\ [](debounceTimer # NoTimer => debounceTimer.rem = DebounceDelay - quiet)
    /\ [][(targetSlug # Null /\ ~contentChangeDetected /\ BatchObserved)
            => debounceTimer' = [rem |-> DebounceDelay, armedFor |-> intent.id,
                                 armedSlug |-> targetSlug]]_vars
    /\ [][CheckRuns => (quiet = DebounceDelay /\ debounceTimer' = NoTimer /\ quiet' = quiet)]_vars

\* a burst of several mutation batches under a pending intent ended in its
\* check, 150 ms after the last batch; the signature was not there, the
\* intent is still pending and no timer is outstanding
C20_Witness ==
    /\ targetSlug # Null
    /\ ~contentChangeDetected
    /\ burst = "many"
    /\ debounceTimer = NoTimer
    /\ quiet = DebounceDelay
    /\ lastLoad.intent # intent.id

\* the step confirms the pending intent (AwaitingConfirmation -> Idle)
Confirms == CheckRuns /\ LoaderInvoked

\* the statements of the confirmation ran in the order the claim gives, the
\* loader with the route's template class already on the body
ConfirmationInOrder ==
    Confirms =>
        LET n == Len(checkSteps')
            marked == (bodyClass \ TemplateClasses) \cup {TemplateClass(targetSlug)}
        IN /\ n \in {4, 5}
           /\ checkSteps'[1] = Statement("updateBodyClass", marked)
           /\ n = 5 => checkSteps'[2] = Statement("applyHeaderStyles", marked)
           /\ checkSteps'[n - 2] = Statement(LoaderOf(targetSlug), marked)
           /\ checkSteps'[n - 1].op = "contentChangeDetected"
           /\ checkSteps'[n].op = "setTimeout"
           /\ lastLoad'.loader = LoaderOf(targetSlug)
           /\ bodyClass' = marked
           /\ contentChangeDetected'
           /\ targetSlug' = targetSlug
           /\ resetTimers' # <<>>
           /\ resetTimers'[Len(resetTimers')] = [rem |-> ResetDelay, intent |-> intent.id]

\* a confirmed intent is reset only when the settle delay of its own
\* confirmation has run out
SettleDelayKept ==
    (targetSlug # Null /\ contentChangeDetected /\ targetSlug' = Null) =>
        ~\E i \in 1..Len(resetTimers) :
             resetTimers[i].intent = intent.id /\ resetTimers[i].rem > 0

\* C21 as stated: confirmation step order.  A confirmation sets the page-type
\* marker, reapplies the header configuration when one is loaded, invokes
\* the route's loader, marks the intent confirmed and arms the 500 ms reset,
\* in this order; and targetSlug of the confirmed intent is reset to null
\* only after those 500 ms.
C21_ConfirmationOrder == [][ConfirmationInOrder]_vars /\ [][SettleDelayKept]_vars

\* the loader the claim names for each route
RouteLoader ==
    [contact |-> "loadContactContent", about |-> "loadAboutContent",
     works |-> "loadProjects", homepage |-> "loadIndexProjects"]

Settled == targetSlug = Null \/ contentChangeDetected

\* the step arms a content check
ChecksArmed ==
    /\ debounceTimer' # NoTimer
    /\ debounceTimer' # debounceTimer
    /\ debounceTimer'.rem = DebounceDelay

\* the step is a click on a router link that carries a data-slug
QualifyingClick ==
    /\ intent'.id = intent.id + 1
    /\ intent'.slug \in Slugs
    /\ targetSlug' = intent'.slug
    /\ ~contentChangeDetected'

\* the step is the reset callback of a confirmation
ResetRuns == resetTimers # <<>> /\ resetTimers' = Tail(resetTimers)

\* C23: frame of the watcher.  While targetSlug is null or the intent is
\* confirmed, no step (a mutation batch, a page swap by the router) arms a
\* check, invokes a loader or changes the page-type marker; and targetSlug
\* and the confirmed flag are changed only by a click on a router link with
\* a data-slug, by a confirmation, or by a reset callback: any other click
\* leaves them as they are.
C23_IdleFrame ==
    /\ [][Settled => (~ChecksArmed /\ ~LoaderInvoked /\ bodyClass' = bodyClass)]_vars
    /\ [][(targetSlug' # targetSlug \/ contentChangeDetected' # contentChangeDetected)
            => (QualifyingClick \/ Confirms \/ ResetRuns)]_vars

\* after the about intent was confirmed the router swapped another page in,
\* and no check is pending
C23_Witness ==
    /\ targetSlug = "about"
    /\ contentChangeDetected
    /\ lastLoad = Load("loadAboutContent", intent.id, intent.id)
    /\ page = "works"
    /\ debounceTimer = NoTimer
    /\ bodyClass = {"template-about"}

(***************************************************************************)
(* Claims about the initial page load (checked under SpecInitial)          *)
(***************************************************************************)
\* the route the set-up detected: the body class it found or, for want of
\* one, the class it derived from the address
DetectedRoute == InitialSlug(bodyClass)

\* C10 as stated: once the set-up has run and its timer has fired, the
\* initial route's loader has been invoked exactly once, whether the route was
\* detected from the body class or from the address, and no intent was set.
C10_InitialLoad ==
    (phase = "ready" /\ initialTimer = NoTimer)
        => /\ targetSlug = Null
           /\ DetectedRoute # Null
                => /\ lastLoad = Load(LoaderOf(DetectedRoute), 0, 0)
                   /\ loadsForIntent = 1

(***************************************************************************)
(* Claims about PageRenderer (checked under SpecRender)                    *)
(***************************************************************************)
RenderFunctions == {"renderWorksProjects", "renderIndexProjects", "renderHomepageSlider",
                    "renderAboutContent", "renderContactContent", "renderProjectDetail"}

\* the step is a call of renderHomepageSlider, directly or from
\* loadIndexProjects, on a slider that carries the placeholder flag
SliderCallOnFallback ==
    /\ renders' = renders + 1
    /\ lastStep'.op \in {"renderHomepageSlider", "loadIndexProjects"}
    /\ dom.mounts.slider # Absent
    /\ dom.mounts.slider.hasFallback

\* the step runs the callback of the oldest staged transition
StagedFired == Len(dom'.timers) = Len(dom.timers) - 1

\* C7: staged transition ordering.  A renderHomepageSlider call on a slider
\* with data-has-fallback="true" changes only the slider's opacity and sets
\* the 300 ms timer; while the flag is present the slider's entries are
\* replaced only by the callback of a staged transition whose 300 ms have
\* elapsed; and when that callback has run on the slider it was set for, the
\* flag is absent, the opacity is restored and the entries are the call's.
C7_StagedTransition ==
    /\ [][SliderCallOnFallback
            => /\ dom'.mounts.slider = [dom.mounts.slider EXCEPT !.opacity = "0.7"]
               /\ Len(dom'.timers) = Len(dom.timers) + 1
               /\ dom'.timers[Len(dom'.timers)].waited = 0]_vars
    /\ [][(/\ dom.mounts.slider # Absent
           /\ dom'.mounts.slider # Absent
           /\ lastStep'.op # "swap"
           /\ dom.mounts.slider.hasFallback
           /\ dom'.mounts.slider.items # dom.mounts.slider.items)
            => (StagedFired /\ Head(dom.timers).waited >= StagedDelay)]_vars
    /\ [][(StagedFired /\ ~Head(dom.timers).detached)
            => /\ dom'.mounts.slider # Absent
               /\ ~dom'.mounts.slider.hasFallback
               /\ dom'.mounts.slider.opacity = "1"
               /\ dom'.mounts.slider.items = Head(dom.timers).projects]_vars

\* a staged transition has completed on the served slider, 300 ms after the
\* call: the placeholder entries were replaced and the flag is gone
C7_Witness ==
    /\ lastStep.op = "staged"
    /\ ~lastStep.absent
    /\ lastStep.changed
    /\ lastStep.waited = StagedDelay
    /\ dom.mounts.slider # Absent
    /\ ~dom.mounts.slider.hasFallback
    /\ dom.mounts.slider.opacity = "1"
    /\ dom.mounts.slider.items = Projects(SliderMax)

\* the step is a call of renderHomepageSlider, directly or from
\* loadIndexProjects, on a slider without the placeholder flag
SliderCallWithoutFallback ==
    /\ renders' = renders + 1
    /\ lastStep'.op \in {"renderHomepageSlider", "loadIndexProjects"}
    /\ dom.mounts.slider # Absent
    /\ ~dom.mounts.slider.hasFallback

\* C24: immediate replacement.  A renderHomepageSlider call on a slider
\* without data-has-fallback="true" replaces the slider's entries by the
\* first SliderMax projects of its payload within the call, leaves the
\* opacity and the flag as they are, and sets no staged timer.
C24_ImmediateReplacement ==
    [][SliderCallWithoutFallback
         => /\ dom'.mounts.slider =
                  [dom.mounts.slider EXCEPT
                      !.items = Projects(Min(lastStep'.n, SliderMax))]
            /\ dom'.timers = dom.timers]_vars

\* after a completed staged transition a second call with one project has
\* replaced the slider's entries at once
C24_Witness ==
    /\ lastStep.op = "renderHomepageSlider"
    /\ lastStep.n = 1
    /\ lastStep.changed
    /\ dom.timers = <<>>
    /\ dom.mounts.slider # Absent
    /\ ~dom.mounts.slider.hasFallback
    /\ dom.mounts.slider.opacity = "1"
    /\ dom.mounts.slider.items = Projects(1)

\* the mount points the claim gives each render function (the staged
\* callback is the second half of renderHomepageSlider)
WritesOf(op) ==
    CASE op = "renderWorksProjects" -> {"worksList"}
      [] op = "renderIndexProjects" -> {"grid"}
      [] op \in {"renderHomepageSlider", "staged"} -> {"slider", "mainVideo", "sliderTotal"}
      [] op = "loadIndexProjects" -> {"grid", "slider", "mainVideo", "sliderTotal"}
      [] op = "renderAboutContent" -> {"aboutBox", "playerLink"}
      [] op = "renderContactContent" -> {"staffList", "addressBox"}
      [] OTHER -> MountNames

\* the route each render function belongs to
RouteOf(op) ==
    CASE op = "renderWorksProjects" -> "works"
      [] op = "renderAboutContent" -> "about"
      [] op = "renderContactContent" -> "contact"
      [] OTHER -> "homepage"

FramedFunctions == {"renderWorksProjects", "renderIndexProjects", "renderHomepageSlider",
                    "loadIndexProjects", "staged", "renderAboutContent",
                    "renderContactContent"}

\* the step is a call of one of these functions, or a staged callback
FramedStep ==
    /\ lastStep'.op \in FramedFunctions
    /\ renders' = renders + 1 \/ StagedFired

C28_LatestSliderCallWins ==
    /\ []((indexLoad >= 0 /\ dom.timers = <<>> /\ dom.mounts.slider # Absent)
            => dom.mounts.slider.items = Projects(Min(indexLoad, SliderMax)))
    /\ [][(StagedFired /\ dom'.timers = <<>>)
            => Head(dom.timers).projects = Projects(Min(indexLoad, SliderMax))]_vars

\* the slider is in the document at partial opacity
SliderDimmed == dom.mounts.slider # Absent /\ dom.mounts.slider.opacity = "0.7"

\* C29: staged transitions terminate.  The slider is at partial opacity only
\* while a staged replacement is pending on it, and whenever it is at partial
\* opacity it is eventually at full opacity with the placeholder flag removed.
C29_StagedTerminates ==
    /\ [](SliderDimmed => \E i \in 1..Len(dom.timers) : ~dom.timers[i].detached)
    /\ SliderDimmed ~> (/\ dom.mounts.slider # Absent
                        /\ dom.mounts.slider.opacity = "1"
                        /\ ~dom.mounts.slider.hasFallback)

\* two overlapping staged transitions have both completed
C29_Witness ==
    /\ renders = 2
    /\ lastStep.op = "staged"
    /\ dom.timers = <<>>
    /\ dom.mounts.slider # Absent
    /\ dom.mounts.slider.opacity = "1"
    /\ ~dom.mounts.slider.hasFallback

\* the positions of the log at which the second phase of replacement id did `what`
Done(what, id) == {i \in 1..Len(post.log) : post.log[i].what = what /\ post.log[i].id = id}

\* every step of a second phase comes after the step before it, of the same
\* replacement and for the same event
PhaseOrder ==
    \A i \in 1..Len(post.log) :
        LET e == post.log[i]
            before == CASE e.what = "lazy" -> "replace"
                        [] e.what = "notify" -> "lazy"
                        [] e.what = "rebind" -> "notify"
                        [] OTHER -> "none"
        IN e.what # "replace" =>
              \E j \in Done(before, e.id) : j < i /\ post.log[j].event = e.event

\* the lazy media are initialised 100 ms after the replacement and the event
\* is dispatched 200 ms later
PhaseDelays ==
    \A i \in 1..Len(post.log) :
        /\ post.log[i].what = "lazy" => post.log[i].age = SettleDelay
        /\ post.log[i].what = "notify" => post.log[i].age = SettleDelay + NotifyDelay

\* once no timer of the second phase is left, every replacement has had its
\* media initialised and its event dispatched, and hover-init has re-bound
\* after every projects-rendered
PhaseComplete ==
    post.timers = <<>> =>
        \A i \in 1..Len(post.log) :
            post.log[i].what = "replace" =>
                /\ Cardinality(Done("lazy", post.log[i].id)) = 1
                /\ Cardinality(Done("notify", post.log[i].id)) = 1
                /\ Cardinality(Done("rebind", post.log[i].id)) =
                      IF post.log[i].event = "projects-rendered" THEN 1 ELSE 0

\* C25: every content replacement made by renderWorksProjects,
\* renderIndexProjects or renderSliderContent is followed, after the deferred
\* delays, by the initialisation of the lazy media and then by exactly one
\* notification (projects-rendered for the lists, slider-rendered for the
\* slider); no notification is dispatched before its replacement or more
\* than once, and hover-init re-binds after each projects-rendered.
C25_PostRenderPhase ==
    /\ PhaseOrder
    /\ PhaseDelays
    /\ PhaseComplete
    /\ \A id \in 1..post.count :
          /\ Cardinality(Done("replace", id)) <= 1
          /\ Cardinality(Done("notify", id)) <= 1

\* a list replacement and a slider replacement whose second phases overlapped
\* have both been notified, and hover-init has re-bound
C25_Witness ==
    /\ post.timers = <<>>
    /\ \E i, j, k \in 1..Len(post.log) :
          /\ i < j /\ j < k
          /\ post.log[i].what = "replace"
          /\ post.log[j].what = "replace"
          /\ post.log[i].event # post.log[j].event
          /\ post.log[k].what = "lazy" /\ post.log[k].id = post.log[i].id
    /\ \E i \in 1..Len(post.log) : post.log[i].what = "rebind"
    /\ \E i \in 1..Len(post.log) :
          post.log[i].what = "notify" /\ post.log[i].event = "slider-rendered"

\* sequence k has been superseded: a loader of another route has been called
\* since it started
Superseded(k) == \E j \in (k + 1)..Len(loads) : loads[j].loader # loads[k].loader

\* the call of another loader leaves the sequences in flight as they are
SupersedingLeavesInFlight ==
    Len(loads') > Len(loads) =>
        \A k \in 1..Len(loads) :
            InFlight(calls[k]) => calls'[k] = calls[k] /\ loads'[k] = loads[k]

\* a superseded sequence whose request delivers a payload stores it under its
\* own key and goes on to its render call, which leaves the document alone
\* when the loader's mount is not there
SupersededCompletes ==
    \A k \in 1..Len(loads) :
        (Superseded(k) /\ InFlight(calls[k]) /\ calls'[k].pc = "ok") =>
            /\ cache'[CacheKey(calls[k].endpoint)] = calls'[k].data
            /\ calls'[k].data.ref[1] = k
            /\ loads'[k].rendered
            /\ MountAbsent(dom, RendererOf(loads[k].loader)) =>
                  /\ dom' = dom
                  /\ ~loads'[k].logged
            /\ dom'.mounts # dom.mounts => ~MountAbsent(dom, RendererOf(loads[k].loader))

\* C26: nothing cancels a loader.  When a loader of another route is called
\* while a sequence is awaiting its fetch, the sequence stays as it is; when
\* its request then delivers a payload, the payload is stored in the cache
\* under the sequence's own resource key and the render call follows, which
\* changes the document only if the loader's mount is present and otherwise
\* changes nothing.
C26_NoCancellation ==
    /\ [][SupersedingLeavesInFlight]_vars
    /\ [][SupersededCompletes]_vars

\* the works loader, superseded by the index loader while it was awaiting its
\* request, has completed on the homepage: payload cached, render a no-op
C26_Witness ==
    /\ Len(loads) = 2
    /\ loads[1].loader = "loadProjects"
    /\ loads[2].loader = "loadIndexProjects"
    /\ racy["projects"]
    /\ calls[1].pc = "ok"
    /\ loads[1].rendered
    /\ loads[2].pc = "awaiting"
    /\ cache["projects"] = calls[1].data
    /\ lastStep.op = "renderWorksProjects"
    /\ lastStep.absent
    /\ ~lastStep.changed

\* call i fails in this step: fetchData throws
Fails(i) == i \in 1..Len(calls) /\ InFlight(calls[i]) /\ calls'[i].pc = "failed"

\* a fetcher is called for endpoint e in this step
CalledFor(e) == Len(calls') = Len(calls) + 1 /\ calls'[Len(calls')].endpoint = e

\* some call for endpoint e has failed
HasFailed(e) == \E i \in 1..Len(calls) : calls[i].endpoint = e /\ calls[i].pc = "failed"

\* C30: a fetchData call that fails adds and changes no cache entry, neither
\* when its first request fails nor when it throws; the cache never holds
\* anything but the payload of a call that returned, so after a failure a
\* call for a resource the cache has no entry for requests the first url
\* again.
C30_FailureNotCached ==
    /\ [][\A i \in 1..Len(calls) :
             (calls[i].pc = "primary" /\ calls'[i].pc \in {"fallback", "failed"})
                 \/ Fails(i) => cache' = cache]_vars
    /\ [](\A e \in Endpoints :
             cache[e] # NoData =>
                 \E i \in 1..Len(calls) :
                     /\ calls[i].endpoint = e
                     /\ calls[i].pc = "ok"
                     /\ calls[i].data = cache[e])
    /\ [](\A e \in Endpoints :
             (\A i \in 1..Len(calls) : calls[i].endpoint = e => calls[i].pc # "ok")
                 => cache[e] = NoData)
    /\ [][\A e \in Endpoints :
             (CalledFor(e) /\ HasFailed(e) /\ cache[e] = NoData) =>
                 /\ calls'[Len(calls')].pc = "primary"
                 /\ calls'[Len(calls')].reqs = <<FirstUrl(e)>>]_vars

\* after a call for the projects failed on both of its requests, a second
\* call for them is awaiting its own first request
C30_Witness ==
    /\ Len(calls) = 2
    /\ calls[1].endpoint = "projects"
    /\ calls[1].pc = "failed"
    /\ Len(calls[1].reqs) = 2
    /\ calls[2].endpoint = "projects"
    /\ calls[2].pc = "primary"
    /\ calls[2].sequential
    /\ cache["projects"] = NoData

\* C31: fetchData neither returns nor caches a payload parsed from a
\* response whose status is not a success status, whichever of the two
\* locations the response came from.
C31_NoPayloadFromFailedResponse ==
    /\ \A i \in 1..Len(calls) : calls[i].pc = "ok" => calls[i].data.statusOk
    /\ \A e \in Endpoints : cache[e] # NoData => cache[e].statusOk

\* the class lists a body can have: any of the template classes, with or
\* without a class of another kind
BodyClassLists == SUBSET (TemplateClasses \cup {"is-loaded"})

\* the template classes among `classes`
Marker(classes) == classes \cap TemplateClasses

\* updateBodyClass on any class list and with any argument: at most one
\* template class is left, the one of the slug when the slug is a route, and
\* the other classes are as they were
MarkerAfterCall ==
    \A classes \in BodyClassLists, slug \in Slugs \cup {Null} :
        LET after == UpdateBodyClass(classes, slug)
        IN /\ Cardinality(Marker(after)) <= 1
           /\ slug \in Routes => Marker(after) = {TemplateClass(slug)}
           /\ after \ TemplateClasses = classes \ TemplateClasses

\* C34: page-type marker.  After a call of updateBodyClass the body has at
\* most one of the four template classes, and exactly the class of the slug
\* when the call names a route; after every route confirmation the marker is
\* the class of the confirmed route.
\* (the call reads the state only through the address, so its results are
\* examined before the first click and at every change of the address.)
C34_MarkerInvariant ==
    /\ [](intent = NoIntent => MarkerAfterCall)
    /\ [][path' # path => MarkerAfterCall']_vars
    /\ [](Cardinality(Marker(bodyClass)) <= 1)
    /\ [][Confirms => /\ targetSlug \in Routes
                      /\ Marker(bodyClass') = {TemplateClass(targetSlug)}]_vars

\* the about route has just been confirmed on a body that carried the
\* homepage's class
C34_Witness ==
    /\ contentChangeDetected
    /\ targetSlug = "about"
    /\ lastLoad.loader = "loadAboutContent"
    /\ checkSteps # <<>>
    /\ bodyClass = {"template-about"}

\* the step is a call of renderIndexProjects, directly or from
\* loadIndexProjects, on a document that has the grid
GridCall ==
    /\ renders' = renders + 1
    /\ lastStep'.op \in {"renderIndexProjects", "loadIndexProjects"}
    /\ dom.mounts.grid # Absent

\* C35: after renderIndexProjects has run on a present grid, the grid lists
\* one item per project of the payload, in payload order, whatever
\* data-initial-count was; the attribute is gone after the call, so the path
\* of the pre-rendered items is taken at most once.
C35_GridMatchesPayload ==
    [][GridCall => /\ dom'.mounts.grid.items = Projects(lastStep'.n)
                   /\ dom'.mounts.grid.initialCount = 0]_vars

\* C32: after clearCache every cache entry is the payload of a request
\* issued after the clear: a request that was in flight when clearCache ran
\* does not put its response into the cache.
C32_NoStaleRepopulation ==
    \A e \in Endpoints : cache[e] # NoData => cache[e].ref \notin stale

\* both scripts have done what they do for the initial page
InitialPageSettled ==
    /\ phase = "ready"
    /\ initialTimer = NoTimer
    /\ app.timers = <<>>

\* C33: the load-and-render sequence of the initial route runs exactly once
\* per page load; once setupRouteChangeListener has set the flag,
\* initializeCurrentPage invokes no loader, whichever event set its timer.
C33_InitialLoadOnce ==
    /\ []((InitialPageSettled /\ page \in Routes) => loadsForIntent + app.invoked = 1)
    /\ [][initialPageLoaded => app'.invoked = app.invoked]_vars

\* C36: disableLink followed by enableLink is a round trip.  Enabling a
\* link that was disabled once or twice gives it back the href, the classes
\* js-has-cursor-text and js-change-video, the data-navigo attribute and the
\* listeners it had before it was disabled.
C36_DisableEnableRoundTrip ==
    [][(link.disabled >= 1 /\ link'.disabled = 0) => Visible(link'.el) = link.before]_vars

\* every project link has exactly one handler of each kind
OneHandlerEach ==
    \A i \in 1..Len(hover.boxes) : hover.boxes[i].enter = 1 /\ hover.boxes[i].leave = 1

\* C37: initializeHoverEffects is idempotent.  After each of its runs every
\* project link has exactly one mouseenter and one mouseleave handler; no
\* link ever has more than one of either; and once hover-init has run for
\* the latest render, every link has one of each.
C37_HoverIdempotent ==
    /\ [][hover'.runs = hover.runs + 1 =>
             \A i \in 1..Len(hover'.boxes) :
                 hover'.boxes[i].enter = 1 /\ hover'.boxes[i].leave = 1]_vars
    /\ [](\A i \in 1..Len(hover.boxes) :
             hover.boxes[i].enter <= 1 /\ hover.boxes[i].leave <= 1)
    /\ []((hover.loaded /\ hover.timers = <<>>) => OneHandlerEach)

\* initializeHoverEffects has run four times, twice on the boxes of the
\* latest render, and every link has one handler of each kind
C37_Witness ==
    /\ hover.runs >= 4
    /\ hover.renders = 2
    /\ hover.timers = <<>>
    /\ Len(hover.boxes) = MaxProjects
    /\ OneHandlerEach

\* C8 as stated: once loadIndexProjects has rendered a payload of N projects
\* on the homepage and no staged transition is pending, the slider holds the
\* first min(N, SliderMax) projects of the payload and the grid holds all N,
\* both in payload order.
C8_SliceConsistency ==
    (/\ indexLoad >= 0
     /\ dom.timers = <<>>
     /\ dom.mounts.slider # Absent
     /\ dom.mounts.grid # Absent)
        => /\ dom.mounts.slider.items = slice(Projects(indexLoad), 0, SliderMax)
           /\ dom.mounts.grid.items = Projects(indexLoad)

\* C9 as stated: a render function called while its mount point is absent
\* does not throw, changes no mount and sets no post-render timer.
C9_MissingMountNoOp ==
    (lastStep.op \in RenderFunctions /\ lastStep.absent)
        => (~lastStep.threw /\ ~lastStep.changed /\ ~lastStep.scheduled)

(***************************************************************************)
(* Claims about the load-and-render sequences (checked under SpecLoad)     *)
(***************************************************************************)
SeqIds == 1..Len(loads)

\* sequence k calls its render function in this step
RendersNow(k) ==
    /\ k \in 1..Len(loads')
    /\ loads'[k].rendered
    /\ k \in SeqIds => ~loads[k].rendered

FailsNow(k) ==
    /\ k \in 1..Len(calls')
    /\ calls'[k].pc = "failed"
    /\ k \in 1..Len(calls) => calls[k].pc # "failed"

\* C12: fail-soft.  In the step in which the fetcher call of a sequence
\* fails (both sources in primary mode, the local source in fallback-only
\* mode), the loader logs the error, calls no render function, its promise
\* resolves, and the document is left as it was; the sequence never renders
\* afterwards.
C12_FailSoft ==
    /\ [][\A k \in 1..MaxCalls :
            FailsNow(k) =>
                /\ loads'[k] = Sequence(loads'[k].loader, "resolved", FALSE, NoData, TRUE)
                /\ dom' = dom
                /\ renders' = renders]_vars
    /\ [][\A k \in SeqIds : calls[k].pc = "failed" => loads'[k] = loads[k]]_vars
    /\ [](\A k \in SeqIds :
            calls[k].pc = "failed" =>
                (loads[k].pc = "resolved" /\ loads[k].logged /\ ~loads[k].rendered))

\* both sources failed for a loader whose mount is in the document
C12_Witness ==
    \E k \in SeqIds :
        /\ calls[k].pc = "failed"
        /\ Len(calls[k].reqs) = 2
        /\ loads[k].logged
        /\ ~MountAbsent(dom, RendererOf(loads[k].loader))

\* the network requests made for a data type so far
Requests(endpoint) ==
    Cardinality({r \in (1..Len(calls)) \X (1..2) :
                    /\ calls[r[1]].endpoint = endpoint
                    /\ r[2] <= Len(calls[r[1]].reqs)})

\* C15: with no clearCache call, at most one network request is made per
\* data type, whatever loaders are invoked and however they overlap.
C15_OneRequestPerType == \A endpoint \in Endpoints : Requests(endpoint) <= 1

=============================================================================
